---- MODULE Spec2Model ----
(***************************************************************************)
(* Stable Diffusion pipeline with Prompt-to-Prompt attention control       *)
(* (keras_cv/models/stable_diffusion).                                     *)
(*                                                                         *)
(* Tensors are abstracted to their last (token) axis: an attention map is  *)
(* one row of AttnLen numbers.  Layer names are kept as character          *)
(* sequences so that the name tests of prompt_to_prompt_utils are computed *)
(* the way Python computes them.                                           *)
(***************************************************************************)
EXTENDS Integers, Sequences, FiniteSets, TLC

VARIABLES
    names,      \* submodule._name of every submodule of the diffusion model
    patched,    \* _diffusion_model_prompt_to_prompt is not None
    layers,     \* the tf.Variables of every attention layer
    pc,         \* position of the running call ("idle" between calls)
    call,       \* name and arguments of the current / last call
    res,        \* outcome of the last call
    index,      \* loop index into timesteps (consumed from the end)
    iteration,  \* progress count of the running call
    resample,   \* resample_index of inpaint
    nets,       \* network invocations of the current call, per network
    pred,       \* what the layers looked like at the latest denoiser prediction
    latent,     \* the latent of the running call
    unconditional_latent,   \* the unconditional noise residual of the timestep
    earlier,    \* an earlier run of generate_image: its arguments and final latent
    out,        \* latest forward pass of the observed attention layer
    tok,        \* tokenize_prompt / encode_text: tokenizer output and result
    calc        \* a function of the pipeline applied on its own: arguments, result

vars == <<names, patched, layers, pc, call, res, index, iteration, resample,
          nets, pred, latent, unconditional_latent, earlier, out, tok, calc>>

(***************************************************************************)
(* Bounds                                                                  *)
(***************************************************************************)
NumAttn == 2        \* attention layers in the diffusion model
AttnLen == 2        \* length of the token axis of an attention map
MaxSteps == 2       \* largest num_steps a call is given
MaxResamples == 2   \* largest num_resamples inpaint is given
MaxTokens == 79     \* longest tokenizer output
MaxSide == 330      \* largest img_height / img_width a pipeline is built with
MaxValue == 3       \* largest absolute value of a latent / noise element
MaxWords == 3       \* words in the longest prompt given to create_attention_weights
MaxEdits == 2       \* longest list of (word, weight) pairs

(***************************************************************************)
(* Program constants                                                       *)
(***************************************************************************)
MAX_PROMPT_LENGTH == 77
PAD_TOKEN == 49407
NumTrainSteps == 1000
UNetMultiple == 128
DefaultSide == 512

None == "None"

(***************************************************************************)
(* Strings as character sequences                                          *)
(***************************************************************************)
S_cross_attention ==
    <<"c","r","o","s","s","_","a","t","t","e","n","t","i","o","n">>
S_attn == <<"a","t","t","n">>
S_attn1 == <<"a","t","t","n","1">>
S_attn2 == <<"a","t","t","n","2">>
S_dense == <<"d","e","n","s","e">>
Digits == <<"0","1","2","3","4","5","6","7","8","9">>

\* Python: sub in s
Contains(sub, s) ==
    \E i \in 0..(Len(s) - Len(sub)) : SubSeq(s, i + 1, i + Len(sub)) = sub

\* Python: s.split("_")[-1]
LastSegment(s) ==
    LET us == {i \in 1..Len(s) : s[i] = "_"}
        last == IF us = {} THEN 0 ELSE CHOOSE i \in us : \A j \in us : j <= i
    IN SubSeq(s, last + 1, Len(s))

(***************************************************************************)
(* The submodules of the diffusion model.  Keras names the attention       *)
(* layers cross_attention, cross_attention_1, ...; a dense layer stands    *)
(* for every submodule that is not an attention layer.                     *)
(***************************************************************************)
NumSub == NumAttn + 1
SubIds == 1..NumSub

BaseNames ==
    [i \in SubIds |->
        IF i = 1 THEN S_cross_attention
        ELSE IF i = 2 THEN S_dense
        ELSE S_cross_attention \o <<"_", Digits[i - 1]>>]

IsAttention(nm) == Contains(S_cross_attention, nm)
AttnIds == {i \in SubIds : IsAttention(BaseNames[i])}

\* rename_cross_attention_layers: the attention layers get the suffixes
\* _attn1, _attn2 in turn, in submodule order
RECURSIVE RenameFrom(_, _, _)
RenameFrom(nms, i, cross_attention_count) ==
    IF i > Len(nms) THEN nms
    ELSE IF cross_attention_count % 2 = 0 /\ IsAttention(nms[i])
    THEN RenameFrom([nms EXCEPT ![i] = nms[i] \o <<"_">> \o S_attn1],
                    i + 1, cross_attention_count + 1)
    ELSE IF cross_attention_count % 2 = 1 /\ IsAttention(nms[i])
    THEN RenameFrom([nms EXCEPT ![i] = nms[i] \o <<"_">> \o S_attn2],
                    i + 1, cross_attention_count + 1)
    ELSE RenameFrom(nms, i + 1, cross_attention_count)

rename_cross_attention_layers(nms) == RenameFrom(nms, 1, 0)

(***************************************************************************)
(* Control variables of an attention layer                                 *)
(***************************************************************************)
\* a submodule without control variables (before set_initial_tf_variables)
NoVariables == [absent |-> TRUE]

\* set_initial_tf_variables: the variables every attention layer is given
InitialVariables ==
    [cross_attn_mode |-> "",
     use_prompt_weights |-> FALSE,
     attn_map |-> <<>>,
     prompt_edit_mask |-> <<>>,
     prompt_edit_indices |-> <<>>,
     prompt_weights |-> <<>>]

set_initial_tf_variables(nms, ls) ==
    [i \in DOMAIN ls |-> IF IsAttention(nms[i]) THEN InitialVariables ELSE ls[i]]

\* a reset that leaves the cached attention map in place
ResetKeepsMap(l) ==
    [l EXCEPT !.cross_attn_mode = "",
              !.use_prompt_weights = FALSE,
              !.prompt_edit_mask = <<>>,
              !.prompt_edit_indices = <<>>,
              !.prompt_weights = <<>>]

\* reset_initial_tf_variables
ResetVariables(l) ==
    [l EXCEPT !.cross_attn_mode = "",
              !.use_prompt_weights = FALSE,
              !.attn_map = <<>>,
              !.prompt_edit_mask = <<>>,
              !.prompt_edit_indices = <<>>,
              !.prompt_weights = <<>>]

reset_initial_tf_variables(nms, ls) ==
    [i \in DOMAIN ls |-> IF IsAttention(nms[i]) THEN ResetVariables(ls[i]) ELSE ls[i]]

\* the layer filter of update_cross_attention_mode
\* a layer test that ignores the suffix
MatchesAnyAttention(nm, attn_suffix) == Contains(S_cross_attention, nm)

MatchesSuffix(nm, attn_suffix) ==
    IsAttention(nm) /\ Contains(attn_suffix, LastSegment(nm))

update_cross_attention_mode(nms, ls, mode, attn_suffix) ==
    [i \in DOMAIN ls |->
        IF MatchesSuffix(nms[i], attn_suffix)
        THEN [ls[i] EXCEPT !.cross_attn_mode = mode]
        ELSE ls[i]]

\* a layer filter that lets every attention layer through
AnyAttentionLayer(nm) == IsAttention(nm)

\* the layer filter of update_attention_weights_usage, add_attention_weights
\* and put_mask_diffusion_model
IsAttn2(nm) == IsAttention(nm) /\ Contains(S_attn2, LastSegment(nm))

update_attention_weights_usage(nms, ls, use) ==
    [i \in DOMAIN ls |->
        IF IsAttn2(nms[i]) THEN [ls[i] EXCEPT !.use_prompt_weights = use]
        ELSE ls[i]]

add_attention_weights(nms, ls, prompt_weights) ==
    [i \in DOMAIN ls |->
        IF IsAttn2(nms[i]) THEN [ls[i] EXCEPT !.prompt_weights = prompt_weights]
        ELSE ls[i]]

put_mask_diffusion_model(nms, ls, mask, indices) ==
    [i \in DOMAIN ls |->
        IF IsAttn2(nms[i])
        THEN [ls[i] EXCEPT !.prompt_edit_mask = mask,
                           !.prompt_edit_indices = indices]
        ELSE ls[i]]

(***************************************************************************)
(* Tensor arithmetic on the token axis                                     *)
(***************************************************************************)
\* shapes that broadcast against each other
Broadcasts(a, b) == Len(a) = Len(b) \/ Len(a) = 1 \/ Len(b) = 1

BLen(a, b) == IF Len(a) >= Len(b) THEN Len(a) ELSE Len(b)
At(a, j) == IF Len(a) = 1 THEN a[1] ELSE a[j]

Mul(a, b) == [j \in 1..BLen(a, b) |-> At(a, j) * At(b, j)]
Add(a, b) == [j \in 1..BLen(a, b) |-> At(a, j) + At(b, j)]
OneMinus(a) == [j \in 1..Len(a) |-> 1 - a[j]]

\* a gather that ignores the indices
GatherInPlace(params, indices) == [j \in 1..Len(indices) |-> params[j]]

\* tf.gather(params, indices, axis=-1); indices count from 0
GatherOk(params, indices) ==
    \A j \in 1..Len(indices) : indices[j] + 1 \in 1..Len(params)
Gather(params, indices) ==
    [j \in 1..Len(indices) |-> params[indices[j] + 1]]

\* tf.reshape(x, tf.shape(like)) keeps the elements and needs equal sizes
ReshapeOk(x, like) == Len(x) = Len(like)

(***************************************************************************)
(* call_attention_edit: the forward pass of an attention layer, from the   *)
(* softmax weights on.  Gives the layer's variables after the pass, the    *)
(* weights that multiply v, and whether the pass ended without an error.   *)
(***************************************************************************)
Failed(self) == [ok |-> FALSE, self |-> self, weights |-> <<>>]

\* a re-weighting of the softmax output instead of the weights of the mode
ReweightOfRaw(self, weights, raw) ==
    IF self.use_prompt_weights = TRUE /\ Len(self.prompt_weights) # 0
    THEN IF Broadcasts(raw, self.prompt_weights)
            /\ ReshapeOk(Mul(raw, self.prompt_weights), raw)
         THEN [ok |-> TRUE, self |-> self,
               weights |-> Mul(raw, self.prompt_weights)]
         ELSE Failed(self)
    ELSE [ok |-> TRUE, self |-> self, weights |-> weights]

\* Method: Attention Re-weighting
Reweight(self, weights, raw) ==
    IF self.use_prompt_weights = TRUE /\ Len(self.prompt_weights) # 0
    THEN IF Broadcasts(weights, self.prompt_weights)
            /\ ReshapeOk(Mul(weights, self.prompt_weights), raw)
         THEN [ok |-> TRUE, self |-> self,
               weights |-> Mul(weights, self.prompt_weights)]
         ELSE Failed(self)
    ELSE [ok |-> TRUE, self |-> self, weights |-> weights]

\* a save branch that caches nothing
SaveAttentionSkips(self, weights, raw) == Reweight(self, weights, raw)

\* a save branch that caches the weights after the re-weighting
SaveAttentionAfterReweight(self, weights, raw) ==
    LET r == Reweight(self, weights, raw)
    IN IF self.cross_attn_mode = "save" /\ r.ok
       THEN [r EXCEPT !.self.attn_map = r.weights]
       ELSE r

\* a save branch that also runs in mode injection
SaveAttentionInInjection(self, weights, raw) ==
    IF self.cross_attn_mode \in {"save", "injection"}
    THEN Reweight([self EXCEPT !.attn_map = weights], weights, raw)
    ELSE Reweight(self, weights, raw)

\* Save attention
SaveAttention(self, weights, raw) ==
    IF self.cross_attn_mode = "save"
    THEN Reweight([self EXCEPT !.attn_map = weights], weights, raw)
    ELSE Reweight(self, weights, raw)

\* a use_last branch that keeps the weights of the current pass
UseLastKeepsWeights(self, weights, raw) == SaveAttention(self, weights, raw)

\* Use the attention from the original prompt
UseLast(self, weights, raw) ==
    IF self.cross_attn_mode = "use_last"
    THEN IF ReshapeOk(self.attn_map, raw)
         THEN SaveAttention(self, self.attn_map, raw)
         ELSE Failed(self)
    ELSE SaveAttention(self, weights, raw)

\* Method: Prompt Refinement
call_attention_edit(self, raw) ==
    IF self.cross_attn_mode = "edit" /\ Len(self.prompt_edit_mask) # 0
    THEN IF /\ GatherOk(self.attn_map, self.prompt_edit_indices)
            /\ Broadcasts(Gather(self.attn_map, self.prompt_edit_indices),
                          self.prompt_edit_mask)
            /\ Broadcasts(raw, self.prompt_edit_mask)
         THEN LET weights_masked ==
                      Gather(self.attn_map, self.prompt_edit_indices)
                  edit_weights ==
                      Add(Mul(weights_masked, self.prompt_edit_mask),
                          Mul(raw, OneMinus(self.prompt_edit_mask)))
              IN IF Broadcasts(Mul(weights_masked, self.prompt_edit_mask),
                               Mul(raw, OneMinus(self.prompt_edit_mask)))
                    /\ ReshapeOk(edit_weights, raw)
                 THEN UseLast(self, edit_weights, raw)
                 ELSE Failed(self)
         ELSE Failed(self)
    ELSE UseLast(self, raw, raw)

(***************************************************************************)
(* Values the calls are given                                              *)
(***************************************************************************)
Modes == {"", "save", "use_last", "edit", "injection", "unconditional"}
UnknownMode == "sav"

\* softmax weights a layer can compute (two rows that differ everywhere)
RawRows == {[j \in 1..AttnLen |-> j + 1], [j \in 1..AttnLen |-> 2 * j + 3]}

\* an alignment of two prompts: the first token is kept, the rest is new;
\* the index mapping reverses the token axis
AlignMask == [j \in 1..AttnLen |-> IF j = 1 THEN 1 ELSE 0]
AlignIndices == [j \in 1..AttnLen |-> AttnLen - j]

\* token weights of the right length, and an array that does not broadcast
TokenWeights == [j \in 1..AttnLen |-> IF j = 1 THEN 3 ELSE 1]
LongWeights == [j \in 1..(AttnLen + 1) |-> 2]

(***************************************************************************)
(* Text: the tokenizer, tokenize_prompt and the token check of encode_text *)
(***************************************************************************)
\* a tokenizer output of n ids: start of text, words, end of text
TokenIds(n) ==
    [k \in 1..n |-> IF k = 1 THEN PAD_TOKEN - 1
                    ELSE IF k = n THEN PAD_TOKEN ELSE 320]

\* the prompts the calls are given, by the number of ids they tokenize to
Prompts == {"short", "full", "long"}
Tokenize(prompt) ==
    IF prompt = "short" THEN TokenIds(3)
    ELSE IF prompt = "full" THEN TokenIds(MAX_PROMPT_LENGTH)
    ELSE TokenIds(MAX_PROMPT_LENGTH + 1)

\* a length check that is off by one
TooLongFrom77(inputs) == Len(inputs) >= MAX_PROMPT_LENGTH

TooLong(inputs) == Len(inputs) > MAX_PROMPT_LENGTH

\* tokenize_prompt, and encode_text up to the text encoder:
\* phrase = inputs + [49407] * (MAX_PROMPT_LENGTH - len(inputs))
tokenize_prompt(inputs) ==
    IF TooLong(inputs)
    THEN [ok |-> FALSE, phrase |-> <<>>]
    ELSE [ok |-> TRUE,
          phrase |-> inputs \o [k \in 1..(MAX_PROMPT_LENGTH - Len(inputs))
                                   |-> PAD_TOKEN]]

(***************************************************************************)
(* The schedule                                                            *)
(***************************************************************************)
\* tf.range(1, 1000, 1000 // num_steps)
Timesteps(num_steps) ==
    LET step == NumTrainSteps \div num_steps
        n == ((NumTrainSteps - 2) \div step) + 1
    IN [k \in 1..n |-> 1 + (k - 1) * step]

\* t_scale = 1 - timestep / 1000, in thousandths
TScale(timestep) == NumTrainSteps - timestep

\* _ALPHAS_CUMPROD[t]: an entry of the cumulative-alpha table, named by its
\* index; no entry of the table is 1.0
ALPHAS_CUMPROD(t) == [one |-> FALSE, t |-> t]

\* the literal 1.0
One == [one |-> TRUE, t |-> 0]

\* an alphas_prev that is not shifted by one place
AlphasNotShifted(timesteps) ==
    LET alphas == [k \in 1..Len(timesteps) |-> ALPHAS_CUMPROD(timesteps[k])]
    IN [alphas |-> alphas, alphas_prev |-> alphas]

\* an alphas_prev that is shifted the other way
AlphasShiftedUp(timesteps) ==
    LET alphas == [k \in 1..Len(timesteps) |-> ALPHAS_CUMPROD(timesteps[k])]
    IN [alphas |-> alphas,
        alphas_prev |-> SubSeq(alphas, 2, Len(alphas)) \o <<One>>]

\* _get_initial_alphas
get_initial_alphas(timesteps) ==
    LET alphas == [k \in 1..Len(timesteps) |-> ALPHAS_CUMPROD(timesteps[k])]
    IN [alphas |-> alphas,
        alphas_prev |-> <<One>> \o SubSeq(alphas, 1, Len(alphas) - 1)]

\* a_t, a_prev = alphas[index], alphas_prev[index]
StepAlphas(num_steps, i) ==
    LET a == get_initial_alphas(Timesteps(num_steps))
    IN [a_t |-> a.alphas[i], a_prev |-> a.alphas_prev[i]]

(***************************************************************************)
(* Arguments                                                               *)
(***************************************************************************)
Methods == {"refine", "replace", "reweight"}
OtherMethod == "blend"

\* attn_edit_weights: None, or an array
NoWeights == [given |-> FALSE, arr |-> <<>>]
Array(a) == [given |-> TRUE, arr |-> a]
WeightArgs == {NoWeights, Array(<<>>), Array(TokenWeights), Array(LongWeights)}

\* self_attn_steps / cross_attn_steps: a float, a pair of floats, or an int
\* (thousandths)
Float(x) == [kind |-> "float", lo |-> 0, hi |-> x]
Pair(x, y) == [kind |-> "tuple", lo |-> x, hi |-> y]
IntArg(x) == [kind |-> "int", lo |-> 0, hi |-> x]
HalfWay == TScale(1 + NumTrainSteps \div 2)
LastScale == TScale(1)
WindowArgs ==
    {Float(HalfWay), Pair(HalfWay, LastScale),
     Pair(HalfWay + 1, LastScale - 1), IntArg(1)}

\* isinstance(steps, float): steps = (0.0, steps)
AsWindow(steps) ==
    IF steps.kind = "float" THEN Pair(0, steps.hi) ELSE steps

\* a window that excludes its bounds
InWindowExclusive(steps, t_scale) == steps.lo < t_scale /\ t_scale < steps.hi

\* steps[0] <= t_scale <= steps[1]
Subscriptable(steps) == steps.kind = "tuple"
InWindow(steps, t_scale) == steps.lo <= t_scale /\ t_scale <= steps.hi

NoArgs ==
    [name |-> "none", noise |-> FALSE, seed |-> FALSE, negative_prompt |-> None,
     prompt |-> None, prompt_edit |-> None, method |-> None,
     attn_edit_weights |-> NoWeights, self_attn_steps |-> Float(0),
     cross_attn_steps |-> Float(0), num_steps |-> 1, num_resamples |-> 1,
     verbose |-> TRUE]

GenerateImageArgs ==
    {[NoArgs EXCEPT !.name = "generate_image", !.noise = n, !.seed = s,
                    !.negative_prompt = np, !.num_steps = k] :
        n \in BOOLEAN, s \in BOOLEAN, np \in {None, "short", "long"},
        k \in 1..MaxSteps}

\* The checks before the loop read noise, seed, the prompts, the method and
\* the weights; the loop reads the method, the weights, the windows and
\* num_steps.  CheckedArgs holds every combination of the former, EditArgs
\* every combination of the latter.
P2PArgs(ns, ps, m, w, sw, cw, k) ==
    [name |-> "prompt_to_prompt", noise |-> ns[1], seed |-> ns[2],
     negative_prompt |-> ps[3], prompt |-> ps[1], prompt_edit |-> ps[2],
     method |-> m, attn_edit_weights |-> w, self_attn_steps |-> sw,
     cross_attn_steps |-> cw, num_steps |-> k, num_resamples |-> 1,
     verbose |-> TRUE]

PromptArgs ==
    {<<"short", "short", None>>, <<"full", "short", "short">>,
     <<"long", "short", None>>, <<"short", "long", None>>,
     <<"short", "short", "long">>}

CheckedArgs ==
    {P2PArgs(ns, ps, m, w, Float(HalfWay), Float(HalfWay), 1) :
        ns \in BOOLEAN \X BOOLEAN, ps \in PromptArgs,
        m \in Methods \cup {OtherMethod}, w \in WeightArgs}

EditArgs ==
    {P2PArgs(<<FALSE, TRUE>>, <<"short", "short", None>>, m, w, sw, cw, k) :
        m \in Methods, w \in WeightArgs \ {NoWeights},
        sw \in WindowArgs, cw \in WindowArgs, k \in 1..MaxSteps}

PromptToPromptArgs == CheckedArgs \cup EditArgs

InpaintArgs ==
    {[NoArgs EXCEPT !.name = "inpaint", !.noise = n, !.seed = s,
                    !.prompt = ps[1], !.negative_prompt = ps[2],
                    !.num_steps = k, !.num_resamples = r, !.verbose = v] :
        n \in BOOLEAN, s \in BOOLEAN,
        ps \in {<<"short", None>>, <<"short", "short">>, <<"long", None>>,
                <<"short", "long">>},
        k \in 1..MaxSteps, r \in 1..MaxResamples, v \in BOOLEAN}

NoRun == [call |-> NoArgs, latent |-> [init |-> "none", steps |-> <<>>]]

PatchedNames == rename_cross_attention_layers(BaseNames)
PatchedLayers ==
    set_initial_tf_variables(PatchedNames, [i \in SubIds |-> NoVariables])

(***************************************************************************)
(* The attention layers driven directly through prompt_to_prompt_utils     *)
(***************************************************************************)
\* out.saved: the raw weights of the pass before the latest one, if that pass
\* ran in mode save (empty otherwise)
NoPass ==
    [ok |-> TRUE, mode |-> "", upw |-> FALSE, raw |-> <<>>, eff |-> <<>>,
     saved |-> <<>>, kept |-> TRUE]

NoResult == [kind |-> "none", why |-> "none"]
NoNets == [text |-> 0, denoise |-> 0, image |-> 0, decoder |-> 0]
NoTok == [fn |-> "none", inputs |-> <<>>, ok |-> TRUE, phrase |-> <<>>]
NoCalc == [fn |-> "none"]
NoLatent == [init |-> "none", steps |-> <<>>]

NoPred == [first |-> FALSE, ctx |-> "none", index |-> 0, latent |-> NoLatent,
           layers |-> <<>>]

latentVars == <<latent, unconditional_latent>>
pipelineVars ==
    <<pc, call, res, index, iteration, resample, nets, pred, latentVars,
      earlier>>

InitAttn ==
    /\ names = PatchedNames
    /\ patched = TRUE
    /\ layers = PatchedLayers
    /\ out = NoPass
    /\ pc = "idle" /\ call = NoArgs /\ res = NoResult
    /\ index = 0 /\ iteration = 0 /\ resample = 0
    /\ nets = NoNets /\ pred = NoPred
    /\ latent = NoLatent /\ unconditional_latent = <<>>
    /\ earlier = NoRun
    /\ tok = NoTok /\ calc = NoCalc

AttnUpdateMode ==
    /\ \E mode \in Modes \cup {UnknownMode} :
       \E attn_suffix \in {S_attn, S_attn1, S_attn2} :
          layers' = update_cross_attention_mode(names, layers, mode, attn_suffix)
    /\ UNCHANGED <<names, patched, out, tok, calc, pipelineVars>>

AttnUpdateUsage ==
    /\ \E use \in BOOLEAN :
          layers' = update_attention_weights_usage(names, layers, use)
    /\ UNCHANGED <<names, patched, out, tok, calc, pipelineVars>>

AttnAddWeights ==
    /\ layers' = add_attention_weights(names, layers, TokenWeights)
    /\ UNCHANGED <<names, patched, out, tok, calc, pipelineVars>>

AttnPutMask ==
    /\ layers' = put_mask_diffusion_model(names, layers, AlignMask, AlignIndices)
    /\ UNCHANGED <<names, patched, out, tok, calc, pipelineVars>>

AttnReset ==
    /\ layers' = reset_initial_tf_variables(names, layers)
    /\ UNCHANGED <<names, patched, out, tok, calc, pipelineVars>>

\* the observed layer: the first cross-attention (attn2) layer
Probe == CHOOSE i \in SubIds :
            /\ IsAttn2(PatchedNames[i])
            /\ \A j \in SubIds : IsAttn2(PatchedNames[j]) => i <= j

\* one forward pass of the observed layer
AttnForward ==
    /\ \E raw \in RawRows :
          LET self == layers[Probe]
              r == call_attention_edit(self, raw)
          IN /\ layers' = [layers EXCEPT ![Probe] = r.self]
             /\ out' = [ok |-> r.ok,
                        mode |-> self.cross_attn_mode,
                        upw |-> self.use_prompt_weights
                                /\ Len(self.prompt_weights) # 0,
                        raw |-> raw,
                        eff |-> r.weights,
                        saved |-> IF out.mode = "save" THEN out.raw ELSE <<>>,
                        kept |-> r.self = self]
    /\ UNCHANGED <<names, patched, tok, calc, pipelineVars>>

NextAttn ==
    \/ AttnUpdateMode
    \/ AttnUpdateUsage
    \/ AttnAddWeights
    \/ AttnPutMask
    \/ AttnReset
    \/ AttnForward

SpecAttn == InitAttn /\ [][NextAttn]_vars

(***************************************************************************)
(* The denoising network                                                   *)
(***************************************************************************)
CtxNo(ctx) == IF ctx = "uncond" THEN 1 ELSE IF ctx = "edit" THEN 3 ELSE 2

\* the softmax weights layer i computes for a context at a timestep: the
\* network is deterministic, and different inputs give different weights
Raw(i, ctx, t) == [j \in 1..AttnLen |-> 1000 * t + 100 * CtxNo(ctx) + 10 * i + j]

\* predict_on_batch: the attention layers run in submodule order; an error in
\* a layer ends the pass, the layers before it have run
\* the result's weights are the attention weights the layers applied: with the
\* network's inputs they determine its output
RECURSIVE PredictFrom(_, _, _, _, _, _, _)
PredictFrom(nms, pt, ls, i, ctx, t, ws) ==
    IF i > NumSub THEN [ok |-> TRUE, layers |-> ls, weights |-> ws]
    ELSE IF ~IsAttention(nms[i])
    THEN PredictFrom(nms, pt, ls, i + 1, ctx, t, ws)
    ELSE IF ~pt
    THEN PredictFrom(nms, pt, ls, i + 1, ctx, t, Append(ws, Raw(i, ctx, t)))
    ELSE LET r == call_attention_edit(ls[i], Raw(i, ctx, t))
         IN IF r.ok
            THEN PredictFrom(nms, pt, [ls EXCEPT ![i] = r.self], i + 1, ctx, t,
                             Append(ws, r.weights))
            ELSE [ok |-> FALSE, layers |-> [ls EXCEPT ![i] = r.self],
                  weights |-> ws]

Predict(m, ctx, t) ==
    PredictFrom(m.names, m.patched, m.layers, 1, ctx, t, <<>>)

\* diffusion_model_prompt_to_prompt: the first access renames the layers,
\* replaces their forward pass and creates their variables
diffusion_model_prompt_to_prompt(m) ==
    IF m.patched THEN m
    ELSE LET nms == rename_cross_attention_layers(m.names)
         IN [names |-> nms, patched |-> TRUE,
             layers |-> set_initial_tf_variables(nms, m.layers)]

Model == [names |-> names, patched |-> patched, layers |-> layers]

\* seq_aligner.get_mapper on the two prompts' tokens
get_matching_sentence_tokens(prompt, prompt_edit) ==
    [mask |-> AlignMask, indices |-> AlignIndices]

(***************************************************************************)
(* Argument checks                                                         *)
(***************************************************************************)
\* a check that rejects a call as soon as one of the two is given
NoiseOrSeed(a) == a.noise \/ a.seed

\* diffusion_noise is not None and seed is not None
NoiseAndSeed(a) == a.noise /\ a.seed

\* a method list that misses reweight
UnknownMethodShortList(method) == method \notin {"refine", "replace"}

\* method not in ["refine", "replace", "reweight"]
UnknownMethod(method) == method \notin Methods

\* attn_edit_weights.size
Size(w) == Len(w.arr)

Raised(kind, why, text, m) ==
    [kind |-> kind, why |-> why, text |-> text, model |-> m]

\* a prompt_to_prompt that gives the weights to the layers before it encodes
\* the prompts
P2PPreambleWeightsFirst(a, m) ==
    IF NoiseAndSeed(a) THEN Raised("ValueError", "noise_and_seed", 0, m)
    ELSE IF UnknownMethod(a.method) THEN Raised("ValueError", "method", 0, m)
    ELSE IF a.method = "reweight" /\ ~a.attn_edit_weights.given
    THEN Raised("AttributeError", "weights_none", 0, m)
    ELSE IF a.method = "reweight" /\ Size(a.attn_edit_weights) = 0
    THEN Raised("ValueError", "reweight", 0, m)
    ELSE IF ~a.attn_edit_weights.given
    THEN Raised("AttributeError", "weights_none", 0, m)
    ELSE LET pm == diffusion_model_prompt_to_prompt(m)
             m1 == IF Size(a.attn_edit_weights) # 0
                   THEN [pm EXCEPT !.layers =
                            add_attention_weights(pm.names, pm.layers,
                                                  a.attn_edit_weights.arr)]
                   ELSE m
         IN IF TooLong(Tokenize(a.prompt))
            THEN Raised("ValueError", "prompt_too_long", 0, m1)
            ELSE IF TooLong(Tokenize(a.prompt_edit))
            THEN Raised("ValueError", "prompt_too_long", 1, m1)
            ELSE IF a.negative_prompt # None
                    /\ TooLong(Tokenize(a.negative_prompt))
            THEN Raised("ValueError", "prompt_too_long", 2, m1)
            ELSE LET pm1 == diffusion_model_prompt_to_prompt(m1)
                     al == get_matching_sentence_tokens(a.prompt, a.prompt_edit)
                     m2 == IF a.method = "refine"
                           THEN [pm1 EXCEPT !.layers =
                                    put_mask_diffusion_model(pm1.names,
                                        pm1.layers, al.mask, al.indices)]
                           ELSE m1
                 IN Raised("none", "none", 3, m2)

\* prompt_to_prompt up to the sampling loop
P2PPreamble(a, m) ==
    IF NoiseAndSeed(a) THEN Raised("ValueError", "noise_and_seed", 0, m)
    ELSE IF UnknownMethod(a.method) THEN Raised("ValueError", "method", 0, m)
    ELSE IF a.method = "reweight" /\ ~a.attn_edit_weights.given
    THEN Raised("AttributeError", "weights_none", 0, m)
    ELSE IF a.method = "reweight" /\ Size(a.attn_edit_weights) = 0
    THEN Raised("ValueError", "reweight", 0, m)
    ELSE IF TooLong(Tokenize(a.prompt))
    THEN Raised("ValueError", "prompt_too_long", 0, m)
    ELSE IF TooLong(Tokenize(a.prompt_edit))
    THEN Raised("ValueError", "prompt_too_long", 1, m)
    ELSE IF a.negative_prompt # None /\ TooLong(Tokenize(a.negative_prompt))
    THEN Raised("ValueError", "prompt_too_long", 2, m)
    ELSE LET al == get_matching_sentence_tokens(a.prompt, a.prompt_edit)
             pm == diffusion_model_prompt_to_prompt(m)
             m1 == IF a.method = "refine"
                   THEN [pm EXCEPT !.layers =
                            put_mask_diffusion_model(pm.names, pm.layers,
                                                     al.mask, al.indices)]
                   ELSE m
         IN IF ~a.attn_edit_weights.given
            THEN Raised("AttributeError", "weights_none", 3, m1)
            ELSE LET pm1 == diffusion_model_prompt_to_prompt(m1)
                     m2 == IF Size(a.attn_edit_weights) # 0
                           THEN [pm1 EXCEPT !.layers =
                                    add_attention_weights(pm1.names, pm1.layers,
                                        a.attn_edit_weights.arr)]
                           ELSE m1
                 IN Raised("none", "none", 3, m2)

\* a generate_image that encodes the negative prompt before it checks
\* noise and seed
GenPreambleEncodesFirst(a, m) ==
    IF a.negative_prompt # None /\ TooLong(Tokenize(a.negative_prompt))
    THEN Raised("ValueError", "prompt_too_long", 0, m)
    ELSE IF NoiseAndSeed(a) THEN Raised("ValueError", "noise_and_seed", 1, m)
    ELSE Raised("none", "none", 1, m)

\* generate_image up to the sampling loop
GenPreamble(a, m) ==
    IF NoiseAndSeed(a) THEN Raised("ValueError", "noise_and_seed", 0, m)
    ELSE IF a.negative_prompt # None /\ TooLong(Tokenize(a.negative_prompt))
    THEN Raised("ValueError", "prompt_too_long", 0, m)
    ELSE Raised("none", "none", 1, m)

\* inpaint up to the sampling loop; the image encoder runs between the
\* encoding of the prompt and of the negative prompt
InpaintPreamble(a, m) ==
    IF NoiseAndSeed(a) THEN Raised("ValueError", "noise_and_seed", 0, m)
    ELSE IF TooLong(Tokenize(a.prompt))
    THEN Raised("ValueError", "prompt_too_long", 0, m)
    ELSE IF a.negative_prompt # None /\ TooLong(Tokenize(a.negative_prompt))
    THEN Raised("ValueError", "prompt_too_long", 1, m)
    ELSE Raised("none", "none", 2, m)

ImageEncoderRuns(a) == ~NoiseAndSeed(a) /\ ~TooLong(Tokenize(a.prompt))

(***************************************************************************)
(* The pipeline: calls of generate_image, prompt_to_prompt and inpaint on  *)
(* one pipeline instance                                                   *)
(***************************************************************************)
Init ==
    /\ names = BaseNames
    /\ patched = FALSE
    /\ layers = [i \in SubIds |-> NoVariables]
    /\ pc = "idle" /\ call = NoArgs /\ res = NoResult
    /\ index = 0 /\ iteration = 0 /\ resample = 0
    /\ nets = NoNets /\ pred = NoPred
    /\ latent = NoLatent /\ unconditional_latent = <<>>
    /\ earlier = NoRun
    /\ out = NoPass /\ tok = NoTok /\ calc = NoCalc

attnVars == <<out, tok, calc>>
ghostVars == <<earlier, attnVars>>

SetModel(m) ==
    /\ names' = m.names
    /\ patched' = m.patched
    /\ layers' = m.layers

\* the call ends: it returns or raises
Done(kind, why) ==
    /\ pc' = "done"
    /\ res' = [kind |-> kind, why |-> why]

\* the values tf.random.normal can draw
Draws == {"drawn_1", "drawn_2"}

\* latent = diffusion_noise, or _get_initial_diffusion_noise: a function of
\* the seed when there is one, a fresh draw otherwise
get_initial_diffusion_noise(a, drawn) ==
    [init |-> IF a.noise THEN "diffusion_noise"
              ELSE IF a.seed THEN "seed"
              ELSE drawn,
     steps |-> <<>>]

\* an update that takes the two predictions for each other
AdvanceSwapped(x, i, k, uncond, cond) ==
    [x EXCEPT !.steps = Append(@, [index |-> i, resample |-> k,
                                   uncond |-> cond, cond |-> uncond])]

\* the DDIM update of the latent with the guided noise residual
\* unconditional_latent + unconditional_guidance_scale * (cond - unconditional_latent)
Advance(x, i, k, uncond, cond) ==
    [x EXCEPT !.steps = Append(@, [index |-> i, resample |-> k,
                                   uncond |-> uncond, cond |-> cond])]

\* a call starts: the checks and everything before the loop
Enter(a, pre, loop, image) ==
    /\ call' = a
    /\ unconditional_latent' = <<>>
    /\ IF pre.kind = "none"
       THEN \E drawn \in Draws : latent' = get_initial_diffusion_noise(a, drawn)
       ELSE latent' = NoLatent
    /\ SetModel(pre.model)
    /\ nets' = [NoNets EXCEPT !.text = pre.text, !.image = image]
    /\ pred' = NoPred
    /\ iteration' = 0
    /\ resample' = 0
    /\ IF pre.kind = "none"
       THEN /\ pc' = loop
            /\ res' = NoResult
            /\ index' = Len(Timesteps(a.num_steps))
       ELSE /\ Done(pre.kind, pre.why)
            /\ index' = 0

GenerateImageWith(Args) ==
    /\ pc = "idle"
    /\ \E a \in Args :
          Enter(a, GenPreamble(a, Model), "gen_uncond", 0)
    /\ UNCHANGED ghostVars

CallGenerateImage == GenerateImageWith(GenerateImageArgs)

PromptToPromptWith(Args) ==
    /\ pc = "idle"
    /\ \E a \in Args :
          Enter(a, P2PPreamble(a, Model), "p2p_uncond", 0)
    /\ UNCHANGED ghostVars

CallPromptToPrompt == PromptToPromptWith(PromptToPromptArgs)

InpaintWith(Args) ==
    /\ pc = "idle"
    /\ \E a \in Args :
          Enter(a, InpaintPreamble(a, Model), "inp_uncond",
                IF ImageEncoderRuns(a) THEN 1 ELSE 0)
    /\ UNCHANGED ghostVars

CallInpaint == InpaintWith(InpaintArgs)

\* a prediction on the original prompt that overwrites the latent with the
\* noise residual it returns
PredictionKeepsOutput(m, ctx, next) ==
    \E dm \in {m} : \E r \in {Predict(dm, ctx, index)} :
       /\ pred' = [first |-> nets.denoise = 0, ctx |-> ctx, index |-> index,
                   latent |-> latent, layers |-> dm.layers]
       /\ nets' = [nets EXCEPT !.denoise = @ + 1]
       /\ names' = dm.names
       /\ patched' = dm.patched
       /\ layers' = r.layers
       /\ latent' = IF r.ok /\ ctx = "orig"
                     THEN [latent EXCEPT !.init = "noise_residual"]
                     ELSE latent
       /\ unconditional_latent' =
             IF r.ok /\ ctx = "uncond" THEN r.weights ELSE unconditional_latent
       /\ IF r.ok
          THEN pc' = next /\ res' = res
          ELSE Done("InvalidArgumentError", "forward")

\* one denoiser prediction on model m, then on to pc value `next`
Prediction(m, ctx, next) ==
    \E dm \in {m} : \E r \in {Predict(dm, ctx, index)} :
       /\ pred' = [first |-> nets.denoise = 0, ctx |-> ctx, index |-> index,
                   latent |-> latent, layers |-> dm.layers]
       /\ nets' = [nets EXCEPT !.denoise = @ + 1]
       /\ names' = dm.names
       /\ patched' = dm.patched
       /\ layers' = r.layers
       /\ latent' = latent
       /\ unconditional_latent' =
             IF r.ok /\ ctx = "uncond" THEN r.weights ELSE unconditional_latent
       /\ IF r.ok
          THEN pc' = next /\ res' = res
          ELSE Done("InvalidArgumentError", "forward")

\* a loop that takes the same timestep again
StepDoneRepeats(decode, again) ==
    /\ iteration' = iteration + 1
    /\ index' = index
    /\ pc' = IF iteration + 1 >= Len(Timesteps(call.num_steps)) THEN decode
             ELSE again

\* the loop variables after a timestep
StepDone(decode, again) ==
    /\ iteration' = iteration + 1
    /\ index' = index - 1
    /\ pc' = IF index = 1 THEN decode ELSE again

\* the loop variables after a timestep of inpaint with verbose=False: there
\* is no progress bar and no count
StepDoneQuiet(decode, again) ==
    /\ iteration' = iteration
    /\ index' = index - 1
    /\ pc' = IF index = 1 THEN decode ELSE again

(***************************************************************************)
(* generate_image                                                          *)
(***************************************************************************)
GenUncond ==
    /\ pc = "gen_uncond"
    /\ Prediction(Model, "uncond", "gen_cond")
    /\ UNCHANGED <<call, index, iteration, resample, ghostVars>>

GenCond ==
    /\ pc = "gen_cond"
    /\ \E r \in {Predict(Model, "cond", index)} :
          /\ pred' = [first |-> FALSE, ctx |-> "cond", index |-> index,
                      latent |-> latent, layers |-> layers]
          /\ nets' = [nets EXCEPT !.denoise = @ + 1]
          /\ layers' = r.layers
          /\ IF r.ok
             THEN /\ StepDone("gen_decode", "gen_uncond") /\ res' = res
                  /\ latent' = Advance(latent, index, 0, unconditional_latent,
                                       r.weights)
             ELSE Done("InvalidArgumentError", "forward")
                  /\ UNCHANGED <<index, iteration, latent>>
    /\ UNCHANGED <<names, patched, call, resample, unconditional_latent,
                   ghostVars>>

GenDecode ==
    /\ pc = "gen_decode"
    /\ nets' = [nets EXCEPT !.decoder = @ + 1]
    /\ Done("ok", "none")
    /\ UNCHANGED <<names, patched, layers, call, index, iteration, resample,
                   pred, latentVars, ghostVars>>

(***************************************************************************)
(* prompt_to_prompt                                                        *)
(***************************************************************************)
\* cross-attention modes that are left as they are outside the window
CrossModesNoInjection(nms, ls, method, weights, steps, t_scale) ==
    IF ~InWindow(steps, t_scale) THEN ls
    ELSE IF method = "replace"
    THEN update_cross_attention_mode(nms, ls, "use_last", S_attn2)
    ELSE IF method = "refine"
    THEN update_cross_attention_mode(nms, ls, "edit", S_attn2)
    ELSE ls

\* Edit the Cross-Attention layer activations
CrossModes(nms, ls, method, weights, steps, t_scale) ==
    IF InWindow(steps, t_scale)
    THEN LET l1 == IF method = "replace"
                   THEN update_cross_attention_mode(nms, ls, "use_last", S_attn2)
                   ELSE IF method = "refine"
                   THEN update_cross_attention_mode(nms, ls, "edit", S_attn2)
                   ELSE ls
         IN IF method = "reweight" \/ Size(weights) # 0
            THEN update_attention_weights_usage(nms, l1, TRUE)
            ELSE l1
    ELSE update_cross_attention_mode(nms, ls, "injection", S_attn2)

\* self-attention modes that are left as they are outside the window
SelfModesNoInjection(nms, ls, steps, t_scale) ==
    IF InWindow(steps, t_scale)
    THEN update_cross_attention_mode(nms, ls, "use_last", S_attn1)
    ELSE ls

\* Edit the self-Attention layer activations
SelfModes(nms, ls, steps, t_scale) ==
    IF InWindow(steps, t_scale)
    THEN update_cross_attention_mode(nms, ls, "use_last", S_attn1)
    ELSE update_cross_attention_mode(nms, ls, "injection", S_attn1)

\* a clean-up after the edited prediction that drops the weights as well
ClearUsageAndWeights(nms, ls, weights) ==
    IF Size(weights) # 0
    THEN add_attention_weights(nms, update_attention_weights_usage(nms, ls, FALSE),
                               <<>>)
    ELSE ls

\* Assign usage to False so it doesn't get used in other contexts
ClearUsage(nms, ls, weights) ==
    IF Size(weights) # 0
    THEN update_attention_weights_usage(nms, ls, FALSE)
    ELSE ls

\* a mode update that reaches the cross-attention layers only
WithModeOnCross(m, mode) ==
    [m EXCEPT !.layers = update_cross_attention_mode(m.names, m.layers, mode, S_attn2)]

WithMode(m, mode) ==
    [m EXCEPT !.layers = update_cross_attention_mode(m.names, m.layers, mode, S_attn)]

P2PUncond ==
    /\ pc = "p2p_uncond"
    /\ Prediction(WithMode(diffusion_model_prompt_to_prompt(Model), "unconditional"),
                  "uncond", "p2p_save")
    /\ UNCHANGED <<call, index, iteration, resample, ghostVars>>

P2PSave ==
    /\ pc = "p2p_save"
    /\ Prediction(WithMode(Model, "save"), "orig", "p2p_modes")
    /\ UNCHANGED <<call, index, iteration, resample, ghostVars>>

P2PSetModes ==
    /\ pc = "p2p_modes"
    /\ LET cross == AsWindow(call.cross_attn_steps)
           self == AsWindow(call.self_attn_steps)
           t_scale == TScale(Timesteps(call.num_steps)[index])
           l1 == CrossModes(names, layers, call.method, call.attn_edit_weights,
                            cross, t_scale)
       IN IF ~Subscriptable(cross)
          THEN Done("TypeError", "steps_int") /\ layers' = layers
          ELSE IF ~Subscriptable(self)
          THEN Done("TypeError", "steps_int") /\ layers' = l1
          ELSE /\ layers' = SelfModes(names, l1, self, t_scale)
               /\ pc' = "p2p_edit"
               /\ res' = res
    /\ UNCHANGED <<names, patched, call, index, iteration, resample, nets, pred,
                   latentVars, ghostVars>>

P2PEdit ==
    /\ pc = "p2p_edit"
    /\ \E r \in {Predict(Model, "edit", index)} :
          /\ pred' = [first |-> FALSE, ctx |-> "edit", index |-> index,
                      latent |-> latent, layers |-> layers]
          /\ nets' = [nets EXCEPT !.denoise = @ + 1]
          /\ IF r.ok
             THEN /\ layers' = ClearUsage(names, r.layers, call.attn_edit_weights)
                  /\ StepDone("p2p_decode", "p2p_uncond")
                  /\ res' = res
                  /\ latent' = Advance(latent, index, 0, unconditional_latent,
                                       r.weights)
             ELSE /\ layers' = r.layers
                  /\ Done("InvalidArgumentError", "forward")
                  /\ UNCHANGED <<index, iteration, latent>>
    /\ UNCHANGED <<names, patched, call, resample, unconditional_latent,
                   ghostVars>>

P2PDecode ==
    /\ pc = "p2p_decode"
    /\ nets' = [nets EXCEPT !.decoder = @ + 1]
    /\ layers' = reset_initial_tf_variables(names, layers)
    /\ Done("ok", "none")
    /\ UNCHANGED <<names, patched, call, index, iteration, resample, pred,
                   latentVars, ghostVars>>

(***************************************************************************)
(* inpaint                                                                 *)
(***************************************************************************)
InpUncond ==
    /\ pc = "inp_uncond"
    /\ Prediction(Model, "uncond", "inp_cond")
    /\ UNCHANGED <<call, index, iteration, resample, ghostVars>>

\* an inpaint that reports progress after every resample pass
InpCondCountsPasses ==
    /\ pc = "inp_cond"
    /\ \E r \in {Predict(Model, "cond", index)} :
          /\ pred' = [first |-> FALSE, ctx |-> "cond", index |-> index,
                      latent |-> latent, layers |-> layers]
          /\ nets' = [nets EXCEPT !.denoise = @ + 1]
          /\ layers' = r.layers
          /\ latent' = IF r.ok
                        THEN Advance(latent, index, resample,
                                     unconditional_latent, r.weights)
                        ELSE latent
          /\ IF ~r.ok
             THEN Done("InvalidArgumentError", "forward")
                  /\ UNCHANGED <<index, iteration, resample>>
             ELSE IF resample + 1 < call.num_resamples
             THEN /\ resample' = resample + 1
                  /\ pc' = "inp_uncond"
                  /\ iteration' = iteration + 1
                  /\ UNCHANGED <<index, res>>
             ELSE /\ resample' = 0
                  /\ IF call.verbose
                     THEN StepDone("inp_decode", "inp_uncond")
                     ELSE StepDoneQuiet("inp_decode", "inp_uncond")
                  /\ res' = res
    /\ UNCHANGED <<names, patched, call, unconditional_latent, ghostVars>>

InpCond ==
    /\ pc = "inp_cond"
    /\ \E r \in {Predict(Model, "cond", index)} :
          /\ pred' = [first |-> FALSE, ctx |-> "cond", index |-> index,
                      latent |-> latent, layers |-> layers]
          /\ nets' = [nets EXCEPT !.denoise = @ + 1]
          /\ layers' = r.layers
          /\ latent' = IF r.ok
                        THEN Advance(latent, index, resample,
                                     unconditional_latent, r.weights)
                        ELSE latent
          /\ IF ~r.ok
             THEN Done("InvalidArgumentError", "forward")
                  /\ UNCHANGED <<index, iteration, resample>>
             ELSE IF resample + 1 < call.num_resamples
             THEN /\ resample' = resample + 1
                  /\ pc' = "inp_uncond"
                  /\ UNCHANGED <<index, iteration, res>>
             ELSE /\ resample' = 0
                  /\ IF call.verbose
                     THEN StepDone("inp_decode", "inp_uncond")
                     ELSE StepDoneQuiet("inp_decode", "inp_uncond")
                  /\ res' = res
    /\ UNCHANGED <<names, patched, call, unconditional_latent, ghostVars>>

InpDecode ==
    /\ pc = "inp_decode"
    /\ nets' = [nets EXCEPT !.decoder = @ + 1]
    /\ Done("ok", "none")
    /\ UNCHANGED <<names, patched, layers, call, index, iteration, resample,
                   pred, latentVars, ghostVars>>

(***************************************************************************)
(* The caller                                                              *)
(***************************************************************************)
\* the run is interrupted between two timesteps
Abort ==
    /\ pc \in {"gen_uncond", "p2p_uncond", "inp_uncond"}
    /\ resample = 0
    /\ Done("aborted", "abort")
    /\ UNCHANGED <<names, patched, layers, call, index, iteration, resample,
                   nets, pred, latentVars, ghostVars>>

\* the caller has the result (or the error); the pipeline is idle again
ReturnCall ==
    /\ pc = "done"
    /\ pc' = "idle"
    /\ call' = NoArgs
    /\ res' = NoResult
    /\ index' = 0 /\ iteration' = 0 /\ resample' = 0
    /\ nets' = NoNets
    /\ pred' = NoPred
    /\ latent' = NoLatent
    /\ unconditional_latent' = <<>>
    /\ UNCHANGED <<names, patched, layers, attnVars>>

Return == ReturnCall /\ UNCHANGED earlier

Next ==
    \/ CallGenerateImage
    \/ GenUncond
    \/ GenCond
    \/ GenDecode
    \/ CallPromptToPrompt
    \/ P2PUncond
    \/ P2PSave
    \/ P2PSetModes
    \/ P2PEdit
    \/ P2PDecode
    \/ CallInpaint
    \/ InpUncond
    \/ InpCond
    \/ InpDecode
    \/ Abort
    \/ Return

Spec == Init /\ [][Next]_vars

\* The statements of a running call. A call runs in the caller's thread, one
\* statement after the other, and every network call returns: a call that can
\* take its next statement does take it.
Statements ==
    /\ WF_vars(GenUncond) /\ WF_vars(GenCond) /\ WF_vars(GenDecode)
    /\ WF_vars(P2PUncond) /\ WF_vars(P2PSave) /\ WF_vars(P2PSetModes)
    /\ WF_vars(P2PEdit) /\ WF_vars(P2PDecode)
    /\ WF_vars(InpUncond) /\ WF_vars(InpCond) /\ WF_vars(InpDecode)

\* calls that pass their checks, with the arguments the loops read
CountedGenerateArgs ==
    {a \in GenerateImageArgs : a.seed /\ ~a.noise /\ a.negative_prompt = None}

CountedEditArgs ==
    {a \in EditArgs :
        /\ a.attn_edit_weights \in {Array(TokenWeights), Array(LongWeights)}
        /\ a.self_attn_steps = Float(HalfWay)
        /\ a.cross_attn_steps \in {Float(HalfWay), IntArg(1)}}

CountedInpaintArgs ==
    {a \in InpaintArgs : a.seed /\ ~a.noise /\ a.negative_prompt = None}

NextLive ==
    \/ GenerateImageWith(CountedGenerateArgs)
    \/ GenUncond
    \/ GenCond
    \/ GenDecode
    \/ PromptToPromptWith(CountedEditArgs)
    \/ P2PUncond
    \/ P2PSave
    \/ P2PSetModes
    \/ P2PEdit
    \/ P2PDecode
    \/ InpaintWith(CountedInpaintArgs)
    \/ InpUncond
    \/ InpCond
    \/ InpDecode
    \/ Abort
    \/ Return

SpecLive == Init /\ [][NextLive]_vars /\ Statements

(***************************************************************************)
(* Repeated runs of generate_image with a seed on one pipeline, between    *)
(* runs of prompt_to_prompt; the caller keeps what generate_image returned *)
(***************************************************************************)
SeededArgs ==
    {a \in GenerateImageArgs :
        ~a.noise /\ a.seed /\ a.negative_prompt \in {None, "short"}}

BetweenArgs ==
    {a \in EditArgs :
        /\ a.method \in {"replace", "refine"}
        /\ a.attn_edit_weights = Array(TokenWeights)
        /\ a.cross_attn_steps \in {Pair(HalfWay, LastScale), IntArg(1)}
        /\ a.self_attn_steps \in {Float(HalfWay), IntArg(1)}}

\* the caller has the result; it keeps the arguments and the image of a
\* generate_image that returned (the image is the decoder's output for the
\* final latent)
ReturnAndKeep ==
    /\ ReturnCall
    /\ earlier' = IF call.name = "generate_image" /\ res.kind = "ok"
                  THEN [call |-> call, latent |-> latent]
                  ELSE earlier

NextRerun ==
    \/ GenerateImageWith(SeededArgs)
    \/ GenUncond
    \/ GenCond
    \/ GenDecode
    \/ PromptToPromptWith(BetweenArgs)
    \/ P2PUncond
    \/ P2PSave
    \/ P2PSetModes
    \/ P2PEdit
    \/ P2PDecode
    \/ Abort
    \/ ReturnAndKeep

SpecRerun == Init /\ [][NextRerun]_vars

(***************************************************************************)
(* tokenize_prompt and encode_text on the outputs of the tokenizer         *)
(***************************************************************************)
TokenizerOutputs == {TokenIds(n) : n \in 2..MaxTokens}

InitTok ==
    /\ names = BaseNames
    /\ patched = FALSE
    /\ layers = [i \in SubIds |-> NoVariables]
    /\ pc = "idle" /\ call = NoArgs /\ res = NoResult
    /\ index = 0 /\ iteration = 0 /\ resample = 0
    /\ nets = NoNets /\ pred = NoPred
    /\ latent = NoLatent /\ unconditional_latent = <<>>
    /\ earlier = NoRun
    /\ out = NoPass /\ calc = NoCalc
    /\ \E inputs \in TokenizerOutputs : tok = [NoTok EXCEPT !.inputs = inputs]

TokResult(fn) ==
    LET r == tokenize_prompt(tok.inputs)
    IN /\ tok.fn = "none"
       /\ tok' = [fn |-> fn, inputs |-> tok.inputs, ok |-> r.ok,
                  phrase |-> r.phrase]
       /\ res' = IF r.ok THEN [kind |-> "ok", why |-> "none"]
                 ELSE [kind |-> "ValueError", why |-> "prompt_too_long"]

TokenizePrompt ==
    /\ TokResult("tokenize_prompt")
    /\ UNCHANGED <<names, patched, layers, pc, call, index, iteration,
                   resample, nets, pred, latentVars, earlier, out, calc>>

\* encode_text hands the phrase to the text encoder
EncodeText ==
    /\ TokResult("encode_text")
    /\ nets' = IF TooLong(tok.inputs) THEN nets
               ELSE [nets EXCEPT !.text = @ + 1]
    /\ UNCHANGED <<names, patched, layers, pc, call, index, iteration,
                   resample, pred, latentVars, earlier, out, calc>>

NextTok ==
    \/ TokenizePrompt
    \/ EncodeText

SpecTok == InitTok /\ [][NextTok]_vars

(***************************************************************************)
(* The schedule of a run, for every num_steps in [1, 1000)                 *)
(***************************************************************************)
NumStepsArgs == 1..(NumTrainSteps - 1)

InitBase ==
    /\ names = BaseNames
    /\ patched = FALSE
    /\ layers = [i \in SubIds |-> NoVariables]
    /\ pc = "idle" /\ call = NoArgs /\ res = NoResult
    /\ index = 0 /\ iteration = 0 /\ resample = 0
    /\ nets = NoNets /\ pred = NoPred
    /\ latent = NoLatent /\ unconditional_latent = <<>>
    /\ earlier = NoRun
    /\ out = NoPass /\ tok = NoTok

calcFrame == <<names, patched, layers, pipelineVars, out, tok>>

InitSched ==
    /\ InitBase
    /\ \E n \in NumStepsArgs : calc = [fn |-> "none", num_steps |-> n]

\* timesteps = tf.range(1, 1000, 1000 // num_steps)
\* alphas, alphas_prev = self._get_initial_alphas(timesteps)
Schedule ==
    /\ calc.fn = "none"
    /\ LET timesteps == Timesteps(calc.num_steps)
           a == get_initial_alphas(timesteps)
       IN calc' = [fn |-> "schedule", num_steps |-> calc.num_steps,
                   timesteps |-> timesteps,
                   alphas |-> a.alphas, alphas_prev |-> a.alphas_prev]
    /\ UNCHANGED calcFrame

NextSched == Schedule

SpecSched == InitSched /\ [][NextSched]_vars

(***************************************************************************)
(* The construction of a pipeline                                          *)
(***************************************************************************)
\* round(x / m) for integers x >= 0, m > 0: the quotient is exact in floating
\* point for m a power of two, and Python rounds a half to the even neighbour
Round(x, m) ==
    LET q == x \div m
        r == x % m
    IN IF 2 * r < m THEN q
       ELSE IF 2 * r > m THEN q + 1
       ELSE IF q % 2 = 0 THEN q ELSE q + 1

SideArgs ==
    {<<h, w>> : h \in 1..MaxSide, w \in {DefaultSide}} \cup
    {<<h, h>> : h \in 1..MaxSide} \cup
    {<<DefaultSide, w>> : w \in 1..MaxSide}

InitSize ==
    /\ InitBase
    /\ \E a \in SideArgs :
          calc = [fn |-> "none", img_height |-> a[1], img_width |-> a[2]]

\* StableDiffusionBase.__init__
Construct ==
    /\ calc.fn = "none"
    /\ calc' = [fn |-> "init",
                given_height |-> calc.img_height,
                given_width |-> calc.img_width,
                img_height |-> Round(calc.img_height, UNetMultiple) * UNetMultiple,
                img_width |-> Round(calc.img_width, UNetMultiple) * UNetMultiple]
    /\ UNCHANGED calcFrame

NextSize == Construct

SpecSize == InitSize /\ [][NextSize]_vars

(***************************************************************************)
(* create_attention_weights                                                *)
(***************************************************************************)
\* words the tokenizer encodes as one token each
Words == {"a", "cat", "dog"}
Token(word) == IF word = "a" THEN 320 ELSE IF word = "cat" THEN 2368 ELSE 1929

\* tokenizer.encode: the start token, the words' tokens, the end token
Encode(words) ==
    <<PAD_TOKEN - 1>> \o [k \in 1..Len(words) |-> Token(words[k])]
                     \o <<PAD_TOKEN>>

WordSeqs == UNION {[1..n -> Words] : n \in 1..MaxWords}
WeightValues == {2, 3}
EditLists ==
    {l \in UNION {[1..n -> Words \X WeightValues] : n \in 1..MaxEdits} :
        \A i, j \in 1..Len(l) : l[i][1] = l[j][1] => i = j}

\* tf.where(tf.equal(tokens, edit_tokens))[:, -1] for tokens of shape (1, 77)
\* and edit_tokens of shape (k, 1): the positions of the matches, row by row
RECURSIVE PositionsIn(_, _, _)
PositionsIn(tokens, token, j) ==
    IF j > Len(tokens) THEN <<>>
    ELSE (IF tokens[j] = token THEN <<j>> ELSE <<>>)
            \o PositionsIn(tokens, token, j + 1)

RECURSIVE Where(_, _, _)
Where(tokens, edit_tokens, i) ==
    IF i > Len(edit_tokens) THEN <<>>
    ELSE PositionsIn(tokens, edit_tokens[i][1], 1)
            \o Where(tokens, edit_tokens, i + 1)

\* weights[idx] = values of numpy: the values are paired with the indices
\* in order (a later one wins), one value goes to every index, and any other
\* pair of lengths is an error
RECURSIVE AssignFrom(_, _, _, _)
AssignFrom(weights, idx, values, n) ==
    IF n > Len(idx) THEN weights
    ELSE AssignFrom([weights EXCEPT ![idx[n]] =
                        IF Len(values) = 1 THEN values[1] ELSE values[n]],
                    idx, values, n + 1)

Assign(weights, idx, values) ==
    IF Len(values) = Len(idx) \/ Len(values) = 1
    THEN [ok |-> TRUE, weights |-> AssignFrom(weights, idx, values, 1)]
    ELSE [ok |-> FALSE, weights |-> weights]

create_attention_weights(prompt, attn_weights) ==
    LET weights == [j \in 1..MAX_PROMPT_LENGTH |-> 1]
        tokens == tokenize_prompt(Encode(prompt)).phrase
        edit_words == [i \in 1..Len(attn_weights) |-> attn_weights[i][1]]
        edit_weights == [i \in 1..Len(attn_weights) |-> attn_weights[i][2]]
        edit_tokens == [i \in 1..Len(edit_words) |->
                          SubSeq(Encode(<<edit_words[i]>>), 2, 2)]
        index_edit_tokens == Where(tokens, edit_tokens, 1)
    IN Assign(weights, index_edit_tokens, edit_weights)

InitWeights ==
    /\ InitBase
    /\ \E prompt \in WordSeqs : \E attn_weights \in EditLists :
          calc = [fn |-> "none", prompt |-> prompt,
                  attn_weights |-> attn_weights]

CreateAttentionWeights ==
    /\ calc.fn = "none"
    /\ LET r == create_attention_weights(calc.prompt, calc.attn_weights)
       IN calc' = [fn |-> "create_attention_weights", prompt |-> calc.prompt,
                   attn_weights |-> calc.attn_weights,
                   ok |-> r.ok, weights |-> r.weights]
    /\ UNCHANGED calcFrame

NextWeights == CreateAttentionWeights

SpecWeights == InitWeights /\ [][NextWeights]_vars

(***************************************************************************)
(* The DDIM step, on one element of the latent, in exact arithmetic        *)
(***************************************************************************)
\* fractions n / d with d > 0, in lowest terms
RECURSIVE Gcd(_, _)
Gcd(a, b) == IF b = 0 THEN a ELSE Gcd(b, a % b)
Abs(n) == IF n < 0 THEN -n ELSE n
Frac(n, d) ==
    LET g == Gcd(Abs(n), Abs(d))
        sg == IF d < 0 THEN -1 ELSE 1
    IN [n |-> sg * (n \div g), d |-> sg * (d \div g)]
Whole(n) == [n |-> n, d |-> 1]
Plus(a, b) == Frac(a.n * b.d + b.n * a.d, a.d * b.d)
Minus(a, b) == Frac(a.n * b.d - b.n * a.d, a.d * b.d)
Times(a, b) == Frac(a.n * b.n, a.d * b.d)
Over(a, b) == Frac(a.n * b.d, a.d * b.n)

\* cumulative alphas whose roots are fractions: sqrt(a) = p / h and
\* sqrt(1 - a) = q / h for p * p + q * q = h * h
AlphaOf(p, q, h) == [sqrt |-> Frac(p, h), sqrt_one_minus |-> Frac(q, h)]
TableAlphas ==
    {AlphaOf(3, 4, 5), AlphaOf(4, 3, 5), AlphaOf(5, 12, 13), AlphaOf(12, 5, 13)}
\* alphas_prev of the last step: 1.0
AlphaOne == AlphaOf(1, 0, 1)

Values == {Whole(n) : n \in (-MaxValue)..MaxValue}

\* a step that multiplies by sqrt(a_t) where it should divide
StepMultiplies(x, e_t, a_t, a_prev) ==
    LET pred_x0 == Times(Minus(x, Times(a_t.sqrt_one_minus, e_t)), a_t.sqrt)
    IN [pred_x0 |-> pred_x0,
        x_prev |-> Plus(Times(a_prev.sqrt, pred_x0),
                        Times(a_prev.sqrt_one_minus, e_t))]

\* _get_x_prev
get_x_prev(x, e_t, a_t, a_prev) ==
    LET sqrt_one_minus_at == a_t.sqrt_one_minus
        pred_x0 == Over(Minus(x, Times(sqrt_one_minus_at, e_t)), a_t.sqrt)
        dir_xt == Times(a_prev.sqrt_one_minus, e_t)
        x_prev == Plus(Times(a_prev.sqrt, pred_x0), dir_xt)
    IN [pred_x0 |-> pred_x0, x_prev |-> x_prev]

\* the same step as generate_image writes it out
GenerateImageStep(latent_prev, e_t, a_t, a_prev) ==
    LET pred_x0 == Over(Minus(latent_prev, Times(a_t.sqrt_one_minus, e_t)),
                        a_t.sqrt)
    IN [pred_x0 |-> pred_x0,
        x_prev |-> Plus(Times(e_t, a_prev.sqrt_one_minus),
                        Times(a_prev.sqrt, pred_x0))]

InitStep ==
    /\ InitBase
    /\ \E x \in Values, e_t \in Values, a_t \in TableAlphas,
          a_prev \in TableAlphas \cup {AlphaOne} :
          calc = [fn |-> "none", x |-> x, e_t |-> e_t, a_t |-> a_t,
                  a_prev |-> a_prev]

Stepped(fn, r) ==
    /\ calc.fn = "none"
    /\ calc' = [fn |-> fn, x |-> calc.x, e_t |-> calc.e_t, a_t |-> calc.a_t,
                a_prev |-> calc.a_prev, pred_x0 |-> r.pred_x0,
                x_prev |-> r.x_prev]
    /\ UNCHANGED calcFrame

GetXPrev ==
    Stepped("get_x_prev", get_x_prev(calc.x, calc.e_t, calc.a_t, calc.a_prev))

InlineStep ==
    Stepped("generate_image",
            GenerateImageStep(calc.x, calc.e_t, calc.a_t, calc.a_prev))

NextStep ==
    \/ GetXPrev
    \/ InlineStep

SpecStep == InitStep /\ [][NextStep]_vars

(***************************************************************************)
(* The sampling loop of inpaint, on one element of the latent, in exact    *)
(* arithmetic                                                              *)
(***************************************************************************)
\* the cumulative alphas of the timesteps, smaller for later timesteps
AlphaTable ==
    <<AlphaOf(12, 5, 13), AlphaOf(4, 3, 5), AlphaOf(3, 4, 5), AlphaOf(5, 12, 13)>>

\* alphas_prev that are the alphas themselves
InpaintAlphasNotShifted(timesteps) ==
    LET alphas == [k \in 1..Len(timesteps) |-> AlphaTable[k]]
    IN [alphas |-> alphas, alphas_prev |-> alphas]

\* alphas, alphas_prev = self._get_initial_alphas(timesteps)
InpaintAlphas(timesteps) ==
    LET alphas == [k \in 1..Len(timesteps) |-> AlphaTable[k]]
    IN [alphas |-> alphas,
        alphas_prev |-> <<AlphaOne>> \o SubSeq(alphas, 1, Len(alphas) - 1)]

\* unconditional_guidance_scale=7.5
GuidanceScale == Frac(15, 2)

\* unconditional_latent + unconditional_guidance_scale * (latent - unconditional_latent)
Guidance(uncond, cond, scale) == Plus(uncond, Times(scale, Minus(cond, uncond)))

\* predict_on_batch([latent, t_emb, context]): the denoising network is a
\* function of its inputs; two networks, both bounded
Networks == {"by_sign", "by_size"}
Net(net, ctx, x) ==
    IF net = "by_sign"
    THEN IF ctx = "uncond" THEN Whole(0)
         ELSE IF x.n > 0 THEN Whole(1) ELSE Whole(-1)
    ELSE IF ctx = "uncond" THEN (IF x.n > x.d THEN Whole(1) ELSE Whole(0))
         ELSE Whole(-1)

\* noise that is drawn at every timestep
InpaintNoisesAlways(timestep) == {Whole(-1), Whole(1)}

\* noise = tf.random.normal(...) if timestep > 1 else 0.0
InpaintNoises(timestep) ==
    IF timestep > 1 THEN {Whole(-1), Whole(1)} ELSE {Whole(0)}

\* latent_prev = tf.random.normal(tf.shape(latent), mean=..., stddev=...)
Resamples == {Whole(-2), Whole(2)}

\* a re-perturbation after every pass but the last of a timestep
ReperturbsAtEveryTimestep(resample_index, num_resamples, timestep) ==
    resample_index < num_resamples - 1

\* if resample_index < num_resamples - 1 and timestep > 1
Reperturbs(resample_index, num_resamples, timestep) ==
    resample_index < num_resamples - 1 /\ timestep > 1

\* beta_prev = 1 - (a_t / a_prev); the draw has mean
\* latent * sqrt(1 - beta_prev) and standard deviation sqrt(beta_prev)
ResampleAround(x, a_t, a_prev) ==
    LET ratio == Over(Times(a_t.sqrt, a_t.sqrt), Times(a_prev.sqrt, a_prev.sqrt))
    IN [mean |-> Times(x, Over(a_t.sqrt, a_prev.sqrt)),
        variance |-> Minus(Whole(1), ratio)]

\* what the latest pass of the resample loop did
NoPassYet ==
    [timestep |-> 0, resample_index |-> 0, a_t |-> AlphaOne, a_prev |-> AlphaOne,
     noise |-> Whole(0), x_prev |-> Whole(0), redrawn |-> FALSE,
     around |-> [mean |-> Whole(0), variance |-> Whole(0)]]

\* known_latent and the composite with the mask
KnownLatent(a_prev, known_x0, noise) ==
    Plus(Times(a_prev.sqrt, known_x0), Times(a_prev.sqrt_one_minus, noise))
Composite(mask, known_latent, x) ==
    Plus(Times(mask, known_latent), Times(Minus(Whole(1), mask), x))

InitInpaint ==
    /\ InitBase
    /\ \E num_steps \in 1..MaxSteps, num_resamples \in 1..MaxResamples,
          net \in Networks, known_x0 \in {Whole(1), Whole(MaxValue)},
          mask \in {Whole(0), Whole(1)}, noise \in {Whole(0), Whole(2)} :
          calc = [fn |-> "inpaint", at |-> "loop",
                  num_steps |-> num_steps, num_resamples |-> num_resamples,
                  net |-> net, known_x0 |-> known_x0, mask |-> mask,
                  latent |-> noise, latent_prev |-> noise,
                  index |-> Len(Timesteps(num_steps)), resample_index |-> 0,
                  passes |-> 0, given |-> noise, used |-> noise,
                  pass |-> NoPassYet]

\* one pass of the resample loop; the first pass of a timestep sets
\* latent_prev aside
InpaintResample ==
    /\ calc.fn = "inpaint" /\ calc.at = "loop"
    /\ LET timesteps == Timesteps(calc.num_steps)
           timestep == timesteps[calc.index]
           a == InpaintAlphas(timesteps)
           a_t == a.alphas[calc.index]
           a_prev == a.alphas_prev[calc.index]
           latent_prev == IF calc.resample_index = 0 THEN calc.latent
                          ELSE calc.latent_prev
           uncond == Net(calc.net, "uncond", calc.latent)
           cond == Net(calc.net, "cond", calc.latent)
           e_t == Guidance(uncond, cond, GuidanceScale)
           x == GenerateImageStep(latent_prev, e_t, a_t, a_prev).x_prev
           last == calc.resample_index + 1 = calc.num_resamples
       IN \E noise \in InpaintNoises(timestep), drawn \in Resamples :
          LET composite ==
                 Composite(calc.mask, KnownLatent(a_prev, calc.known_x0, noise), x)
              again == Reperturbs(calc.resample_index, calc.num_resamples,
                                  timestep)
          IN /\ ~again => drawn = Whole(2)
             /\ calc' =
                  [calc EXCEPT
                     !.pass = [timestep |-> timestep,
                               resample_index |-> calc.resample_index,
                               a_t |-> a_t, a_prev |-> a_prev,
                               noise |-> noise, x_prev |-> x,
                               redrawn |-> again,
                               around |-> IF again
                                          THEN ResampleAround(composite, a_t, a_prev)
                                          ELSE NoPassYet.around],
                     !.latent = composite,
                     !.latent_prev = IF again THEN drawn
                                     ELSE latent_prev,
                     !.resample_index = IF last THEN 0 ELSE @ + 1,
                     !.index = IF last THEN @ - 1 ELSE @,
                     !.at = IF last /\ calc.index = 1 THEN "decode" ELSE "loop",
                     !.passes = @ + 1,
                     !.given = calc.latent,
                     !.used = latent_prev]
    /\ UNCHANGED calcFrame

\* decoded = self.decoder.predict_on_batch(latent)
InpaintDecode ==
    /\ calc.fn = "inpaint" /\ calc.at = "decode"
    /\ calc' = [calc EXCEPT !.at = "done"]
    /\ UNCHANGED calcFrame

NextInpaint ==
    \/ InpaintResample
    \/ InpaintDecode

SpecInpaint == InitInpaint /\ [][NextInpaint]_vars

(***************************************************************************)
(* Properties                                                              *)
(***************************************************************************)
AttnLayers == {i \in SubIds : IsAttention(names[i])}
Attn1Layers == {i \in AttnLayers : Contains(S_attn1, LastSegment(names[i]))}
Attn2Layers == {i \in AttnLayers : IsAttn2(names[i])}

Returned(name) == pc = "done" /\ call.name = name
UsageError == pc = "done" /\ res.kind = "ValueError"

\* C1: when prompt_to_prompt returns normally, every attention layer holds
\* exactly the variables set_initial_tf_variables created: empty mode, no
\* reweighting, empty attn_map, mask, indices and weights.
C1_NeutralAfterReturn ==
    (Returned("prompt_to_prompt") /\ res.kind = "ok")
        => \A i \in AttnLayers : layers[i] = InitialVariables

\* a refine run with token weights over two timesteps has returned
C1_Witness ==
    /\ Returned("prompt_to_prompt") /\ res.kind = "ok"
    /\ call.method = "refine"
    /\ call.attn_edit_weights = Array(TokenWeights)
    /\ call.num_steps = 2
    /\ iteration = 2

\* C2: at the first denoiser prediction of every call, whatever happened to
\* the calls before it, every attention layer is neutral: reweighting is off
\* and the mode is empty (in prompt_to_prompt, which sets the mode itself
\* before it predicts: the pass-through mode unconditional).
C2_NoLeakIntoNextCall ==
    (pred.first /\ patched)
        => \A i \in AttnLayers :
              /\ pred.layers[i].use_prompt_weights = FALSE
              /\ \/ pred.layers[i].cross_attn_mode = ""
                 \/ /\ call.name = "prompt_to_prompt"
                    /\ pred.layers[i].cross_attn_mode = "unconditional"

\* C3: each of the three calls raises the noise-and-seed ValueError exactly
\* when diffusion_noise and seed are both given.
C3_NoiseAndSeedRejected ==
    (call.name \in {"generate_image", "prompt_to_prompt", "inpaint"})
        => ((call.noise /\ call.seed)
               <=> (UsageError /\ res.why = "noise_and_seed"))

\* inpaint was given both and has raised
C3_Witness ==
    /\ Returned("inpaint") /\ call.noise /\ call.seed
    /\ res = [kind |-> "ValueError", why |-> "noise_and_seed"]

\* C4: prompt_to_prompt ends in a ValueError for every method that is not
\* replace, refine or reweight, and never raises the unknown-method error for
\* one of the three.
C4_MethodChecked ==
    Returned("prompt_to_prompt")
        => /\ call.method \notin {"replace", "refine", "reweight"}
                => res.kind = "ValueError"
           /\ call.method \in {"replace", "refine", "reweight"}
                => res.why # "method"

\* an unknown method was rejected
C4_Witness ==
    /\ Returned("prompt_to_prompt")
    /\ call.method = OtherMethod
    /\ res = [kind |-> "ValueError", why |-> "method"]

\* C5: prompt_to_prompt with method reweight and no edit weights, None or an
\* empty array, ends in a ValueError.
C5_ReweightNeedsWeights ==
    (/\ Returned("prompt_to_prompt")
     /\ call.method = "reweight"
     /\ (~call.attn_edit_weights.given \/ Size(call.attn_edit_weights) = 0))
        => res.kind = "ValueError"

\* C6: tokenize_prompt and encode_text fail exactly when the tokenizer gave
\* more than 77 ids; otherwise the phrase has exactly 77 ids: the prompt's,
\* then only 49407.
C6_PhrasePadded ==
    tok.fn # "none"
        => /\ tok.ok <=> Len(tok.inputs) <= 77
           /\ ~tok.ok => res.kind = "ValueError"
           /\ tok.ok =>
                /\ Len(tok.phrase) = 77
                /\ \A k \in 1..77 :
                      tok.phrase[k] = IF k <= Len(tok.inputs)
                                      THEN tok.inputs[k] ELSE 49407

\* encode_text took a prompt of exactly 77 ids
C6_Witness ==
    /\ tok.fn = "encode_text" /\ Len(tok.inputs) = 77 /\ tok.ok
    /\ nets.text = 1

\* C7 as stated: a call that ends in a usage error has invoked no network.
C7_NoNetworkBeforeUsageError ==
    UsageError => nets = NoNets

\* the first prompt a call encodes
FirstPrompt ==
    IF call.name = "generate_image" THEN call.negative_prompt ELSE call.prompt

\* C7, amended: a call that ends in a usage error has invoked neither the
\* denoising network nor the decoder; it has invoked no network at all when
\* the error is the noise-and-seed, the method or the reweight error, or when
\* the prompt it encodes first is too long.
C7_UsageErrorBeforeSampling ==
    UsageError
        => /\ nets.denoise = 0 /\ nets.decoder = 0
           /\ res.why \in {"noise_and_seed", "method", "reweight"}
                => nets = NoNets
           /\ (res.why = "prompt_too_long" /\ TooLong(Tokenize(FirstPrompt)))
                => nets = NoNets

\* generate_image was given noise, a seed and a negative prompt, and raised
C7_Witness ==
    /\ Returned("generate_image") /\ UsageError
    /\ call.noise /\ call.seed /\ call.negative_prompt = "short"
    /\ nets = NoNets

\* the modes a forward pass knows
KnownModes == {"", "save", "use_last", "edit", "injection", "unconditional"}

\* C8: a forward pass of a layer whose mode is none of the known modes ends
\* with an error.
C8_UnknownModeFails ==
    (out.raw # <<>> /\ out.mode \notin KnownModes) => ~out.ok

\* C9: a pass in mode use_last without reweighting, right after a pass of the
\* same layer in mode save, uses exactly the raw weights of the save pass.
C9_UseLastAfterSave ==
    (out.ok /\ out.mode = "use_last" /\ ~out.upw /\ out.saved # <<>>)
        => out.eff = out.saved

\* such a pair of passes whose raw weights differ
C9_Witness ==
    /\ out.ok /\ out.mode = "use_last" /\ ~out.upw
    /\ out.saved # <<>> /\ out.raw # <<>> /\ out.raw # out.saved
    /\ out.eff = out.saved

\* the timestep of the latest prediction, as t_scale
PredScale == TScale(Timesteps(call.num_steps)[pred.index])
OnBound(steps) ==
    steps.lo <= steps.hi /\ PredScale \in {steps.lo, steps.hi}

\* C10: at the edited-prompt prediction of a timestep whose t_scale equals a
\* bound of cross_attn_steps, the cross-attention layers are as the in-window
\* branch leaves them (never in mode injection); likewise the self-attention
\* layers are in mode use_last when t_scale equals a bound of self_attn_steps.
C10_BoundsInclusive ==
    (call.name = "prompt_to_prompt" /\ pred.ctx = "edit")
        => /\ OnBound(AsWindow(call.cross_attn_steps))
                => \A i \in Attn2Layers :
                      pred.layers[i].cross_attn_mode =
                         (IF call.method = "replace" THEN "use_last"
                          ELSE IF call.method = "refine" THEN "edit"
                          ELSE "save")
           /\ OnBound(AsWindow(call.self_attn_steps))
                => \A i \in Attn1Layers :
                      pred.layers[i].cross_attn_mode = "use_last"

\* a timestep on the lower bound of the cross window and on the upper bound
\* of the self window
C10_Witness ==
    /\ call.name = "prompt_to_prompt" /\ pred.ctx = "edit"
    /\ call.cross_attn_steps = Pair(HalfWay, LastScale)
    /\ call.self_attn_steps = Float(HalfWay)
    /\ PredScale = HalfWay

\* C11: for every num_steps in [1, 1000) the timesteps are strictly increasing
\* and the first element of alphas_prev is 1.0.
C11_ScheduleIncreasing ==
    calc.fn = "schedule"
        => /\ \A k \in 1..(Len(calc.timesteps) - 1) :
                 calc.timesteps[k] < calc.timesteps[k + 1]
           /\ Len(calc.alphas_prev) = Len(calc.timesteps)
           /\ calc.alphas_prev[1] = One

\* the schedule of num_steps = 50: more than one timestep, and the second
\* alphas_prev is the table's entry for the first timestep
C11_Witness ==
    /\ calc.fn = "schedule" /\ calc.num_steps = 50
    /\ Len(calc.timesteps) = 50
    /\ calc.alphas_prev[1] = One
    /\ calc.alphas_prev[2] = ALPHAS_CUMPROD(1)

\* C12: for every num_steps in [1, 1000) the schedule has exactly num_steps
\* timesteps.
C12_ScheduleLength ==
    calc.fn = "schedule" => Len(calc.timesteps) = calc.num_steps

\* C13: a run of generate_image with a seed returns the same image as an
\* earlier run on the same pipeline with the same arguments: the final
\* latents, which the decoder turns into the images, are equal.
C13_SameSeedSameImage ==
    (/\ Returned("generate_image") /\ res.kind = "ok"
     /\ call.seed
     /\ earlier.call = call)
        => latent = earlier.latent

\* the distance of two sizes
Dist(x, y) == IF x < y THEN y - x ELSE x - y

\* a valid size nearest to the given one: a positive multiple of 128 that no
\* other multiple of 128 is strictly closer to
NearestValid(stored, given) ==
    /\ stored > 0
    /\ stored % 128 = 0
    /\ \A k \in 0..(given \div 128 + 1) :
          Dist(k * 128, given) >= Dist(stored, given)

\* C14: the img_height and img_width a pipeline stores are each a nearest
\* valid value of the ones it was built with.
C14_SizeRounded ==
    calc.fn = "init"
        => /\ NearestValid(calc.img_height, calc.given_height)
           /\ NearestValid(calc.img_width, calc.given_width)

\* the pairs of the list whose word stands at position j of the padded prompt
ListedAt(j) ==
    {i \in 1..Len(calc.attn_weights) :
        j - 1 \in 1..Len(calc.prompt)
        /\ calc.prompt[j - 1] = calc.attn_weights[i][1]}

\* C15: create_attention_weights returns 77 weights; the position of a listed
\* word holds the weight listed with that word, every other position holds 1.
C15_WeightsPaired ==
    calc.fn = "create_attention_weights"
        => /\ calc.ok
           /\ Len(calc.weights) = 77
           /\ \A j \in 1..77 :
                 /\ ListedAt(j) = {} => calc.weights[j] = 1
                 /\ \A i \in ListedAt(j) :
                       calc.weights[j] = calc.attn_weights[i][2]

\* sqrt(a_t) * pred_x0 + sqrt(1 - a_t) * e: the forward noising of pred_x0
Renoised ==
    Plus(Times(calc.a_t.sqrt, calc.pred_x0),
         Times(calc.a_t.sqrt_one_minus, calc.e_t))

\* C16: noising the pred_x0 of a step again with the same a_t gives back the
\* step's input x, and a step with a_prev = a_t returns x.
C16_StepRoundTrip ==
    calc.fn \in {"get_x_prev", "generate_image"}
        => /\ Renoised = calc.x
           /\ calc.a_prev = calc.a_t => calc.x_prev = calc.x

\* a step of _get_x_prev with a_prev = a_t whose pred_x0 is not x
C16_Witness ==
    /\ calc.fn = "get_x_prev"
    /\ calc.a_prev = calc.a_t
    /\ calc.e_t # Whole(0)
    /\ calc.pred_x0 # calc.x
    /\ calc.x_prev = calc.x

InPromptToPrompt == call.name = "prompt_to_prompt" /\ pc # "done"

\* the predictions of the current timestep that have happened
PredictionsDone ==
    IF pc = "p2p_save" THEN 1
    ELSE IF pc \in {"p2p_modes", "p2p_edit"} THEN 2
    ELSE 0

AllInMode(ls, mode) ==
    \A i \in AttnLayers : ls[i].cross_attn_mode = mode

\* C17: a timestep of prompt_to_prompt has exactly three predictions, in the
\* order unconditional context with every layer in mode unconditional,
\* original prompt with every layer in mode save, edited prompt; the latent is
\* advanced only after the third.
C17_ThreePredictions ==
    InPromptToPrompt
        => /\ nets.denoise = 3 * iteration + PredictionsDone
           /\ Len(latent.steps) = iteration
           /\ index + iteration = Len(Timesteps(call.num_steps))
           /\ pc = "p2p_save"
                => /\ pred.ctx = "uncond" /\ pred.index = index
                   /\ AllInMode(pred.layers, "unconditional")
           /\ pc \in {"p2p_modes", "p2p_edit"}
                => /\ pred.ctx = "orig" /\ pred.index = index
                   /\ AllInMode(pred.layers, "save")
           /\ (pc \in {"p2p_uncond", "p2p_decode"} /\ iteration > 0)
                => /\ pred.ctx = "edit" /\ pred.index = index + 1
                   /\ latent.steps[iteration].index = pred.index

\* two timesteps are complete: six predictions, the latent advanced twice
C17_Witness ==
    /\ InPromptToPrompt /\ pc = "p2p_decode"
    /\ iteration = 2 /\ nets.denoise = 6
    /\ pred.ctx = "edit" /\ Len(latent.steps) = 2

EditPrediction == call.name = "prompt_to_prompt" /\ pred.ctx = "edit"
InsideCross == InWindow(AsWindow(call.cross_attn_steps), PredScale)
InsideSelf == InWindow(AsWindow(call.self_attn_steps), PredScale)

\* C18: during the edited-prompt prediction every cross-attention layer is in
\* mode use_last for method replace inside cross_attn_steps, in mode edit for
\* method refine inside cross_attn_steps, and in mode injection outside
\* cross_attn_steps for every method.
C18_CrossModes ==
    EditPrediction
        => \A i \in Attn2Layers :
              /\ (InsideCross /\ call.method = "replace")
                    => pred.layers[i].cross_attn_mode = "use_last"
              /\ (InsideCross /\ call.method = "refine")
                    => pred.layers[i].cross_attn_mode = "edit"
              /\ ~InsideCross
                    => pred.layers[i].cross_attn_mode = "injection"

\* an edited-prompt prediction of method reweight outside the cross window,
\* after one inside it
C18_Witness ==
    /\ EditPrediction /\ call.method = "reweight"
    /\ ~InsideCross /\ iteration = 2
    /\ InWindow(AsWindow(call.cross_attn_steps), HalfWay)
    /\ Attn2Layers # {}
    /\ \A i \in Attn2Layers : pred.layers[i].cross_attn_mode = "injection"

\* layers of class `others` keep their variables when the mode of the layers
\* with the suffix is set
KeptBy(attn_suffix, others) ==
    \A mode \in Modes : \A i \in others :
        update_cross_attention_mode(names, layers, mode, attn_suffix)[i]
            = layers[i]

\* C19: during the edited-prompt prediction every self-attention layer is in
\* mode use_last inside self_attn_steps and in mode injection outside it,
\* whatever the method and the cross window; setting the mode of the
\* cross-attention layers leaves the self-attention layers as they are, and
\* the other way round.
C19_SelfModes ==
    /\ EditPrediction
          => \A i \in Attn1Layers :
                pred.layers[i].cross_attn_mode =
                    IF InsideSelf THEN "use_last" ELSE "injection"
    /\ patched => KeptBy(S_attn2, Attn1Layers) /\ KeptBy(S_attn1, Attn2Layers)

\* the self window holds the timestep, the cross window does not
C19_Witness ==
    /\ EditPrediction /\ InsideSelf /\ ~InsideCross
    /\ Attn1Layers # {} /\ Attn2Layers # {}
    /\ \A i \in Attn1Layers : pred.layers[i].cross_attn_mode = "use_last"
    /\ \A i \in Attn2Layers : pred.layers[i].cross_attn_mode = "injection"

\* C20: in prompt_to_prompt use_prompt_weights is false on every layer during
\* the unconditional and the save prediction and at the end of a timestep;
\* during the edited-prompt prediction it is true only on cross-attention
\* layers, only inside cross_attn_steps and only with non-empty edit weights.
C20_WeightsOneShot ==
    /\ (call.name = "prompt_to_prompt" /\ pred.ctx \in {"uncond", "orig"})
          => \A i \in AttnLayers : ~pred.layers[i].use_prompt_weights
    /\ EditPrediction
          => \A i \in AttnLayers :
                pred.layers[i].use_prompt_weights
                    => /\ i \in Attn2Layers
                       /\ InsideCross
                       /\ Size(call.attn_edit_weights) # 0
    /\ (InPromptToPrompt /\ pc \in {"p2p_uncond", "p2p_decode"}
            /\ iteration > 0)
          => \A i \in AttnLayers : ~layers[i].use_prompt_weights

EditModes == {"use_last", "edit", "injection"}

\* the edited-prompt prediction has just run and the layers are as it left them
AfterEditPrediction == EditPrediction /\ (pc = "done" => res.kind # "ok")

\* C21 (as stated): during the edited-prompt prediction every attention layer
\* is in mode use_last, edit or injection, for every method and window.
C21_NoSaveDuringEdit ==
    EditPrediction
        => \A i \in AttnLayers : pred.layers[i].cross_attn_mode \in EditModes

\* C21 (amended): during the edited-prompt prediction every self-attention
\* layer is in mode use_last or injection; every cross-attention layer is in
\* mode use_last, edit or injection, except for method reweight inside
\* cross_attn_steps, where it is still in mode save; a layer that is not in
\* mode save keeps its cached map through the edited-prompt prediction.
C21_SaveOnlyForReweight ==
    /\ EditPrediction
          => /\ \A i \in Attn1Layers :
                   pred.layers[i].cross_attn_mode \in {"use_last", "injection"}
             /\ \A i \in Attn2Layers :
                   IF call.method = "reweight" /\ InsideCross
                   THEN pred.layers[i].cross_attn_mode = "save"
                   ELSE pred.layers[i].cross_attn_mode \in EditModes
    /\ AfterEditPrediction
          => \A i \in AttnLayers :
                pred.layers[i].cross_attn_mode # "save"
                    => layers[i].attn_map = pred.layers[i].attn_map

\* method reweight inside the cross window: the cross-attention layers ran
\* the edited-prompt prediction in mode save and cached its weights
C21_Witness ==
    /\ AfterEditPrediction /\ call.method = "reweight" /\ InsideCross
    /\ pc = "p2p_decode"
    /\ \A i \in Attn2Layers :
          /\ pred.layers[i].cross_attn_mode = "save"
          /\ layers[i].attn_map = Raw(i, "edit", pred.index)
    /\ \A i \in Attn1Layers :
          /\ pred.layers[i].cross_attn_mode \in {"use_last", "injection"}
          /\ layers[i].attn_map = Raw(i, "orig", pred.index)

\* C22: an attention layer that runs the edited-prompt prediction of a
\* prompt_to_prompt timestep in mode use_last or edit holds a non-empty cached
\* map, the raw weights of the original-prompt (save) prediction of the same
\* timestep.
C22_CacheFromSameTimestep ==
    EditPrediction
        => \A i \in AttnLayers :
              pred.layers[i].cross_attn_mode \in {"use_last", "edit"}
                  => /\ pred.layers[i].attn_map # <<>>
                     /\ pred.layers[i].attn_map = Raw(i, "orig", pred.index)

\* the second timestep of a refine run with both windows open: the layers
\* read a cache, and the first timestep had filled the cache before
C22_Witness ==
    /\ EditPrediction /\ call.method = "refine" /\ iteration = 2
    /\ InsideCross /\ InsideSelf /\ res.kind = "none"
    /\ \A i \in Attn2Layers :
          /\ pred.layers[i].cross_attn_mode = "edit"
          /\ pred.layers[i].attn_map = Raw(i, "orig", 1)
    /\ \A i \in Attn1Layers :
          /\ pred.layers[i].cross_attn_mode = "use_last"
          /\ pred.layers[i].attn_map = Raw(i, "orig", 1)

\* a step that is a forward pass of the observed layer
ForwardPass == out' # out

\* C23: a forward pass of a layer in mode save leaves the raw weights of the
\* pass (before any re-weighting) as the layer's cached map, and with the
\* re-weighting off the raw weights are the effective weights.
C23_SaveCachesRaw ==
    [][(ForwardPass /\ out'.mode = "save")
          => /\ layers'[Probe].attn_map = out'.raw
             /\ layers'[Probe] = [layers[Probe] EXCEPT !.attn_map = out'.raw]
             /\ ~out'.upw => (out'.ok /\ out'.eff = out'.raw)]_vars

\* a save pass with the re-weighting on: the cache holds the raw weights, not
\* the re-weighted ones, and replaced another cached map
C23_Witness ==
    /\ out.mode = "save" /\ out.ok /\ out.upw
    /\ out.eff # out.raw /\ out.saved # <<>> /\ out.saved # out.raw
    /\ layers[Probe].cross_attn_mode = "save"
    /\ layers[Probe].attn_map = out.raw

\* cached[..., edit_indices[j]] * edit_mask[j] + W[..., j] * (1 - edit_mask[j])
Blend(self, W) ==
    [j \in 1..Len(W) |->
        self.attn_map[self.prompt_edit_indices[j] + 1] * self.prompt_edit_mask[j]
            + W[j] * (1 - self.prompt_edit_mask[j])]

Resolved(self, W) ==
    IF self.cross_attn_mode = "use_last" THEN self.attn_map
    ELSE IF self.cross_attn_mode = "edit" /\ Len(self.prompt_edit_mask) # 0
    THEN Blend(self, W)
    ELSE W

\* C25: in every mode the effective weights of a forward pass that ends
\* without an error are the mode-resolved weights multiplied elementwise by
\* prompt_weights if use_prompt_weights is true and prompt_weights is not
\* empty, and the mode-resolved weights themselves otherwise.
C25_ReweightLast ==
    [][(ForwardPass /\ out'.ok /\ out'.mode \in KnownModes)
          => LET self == layers[Probe]
                 on == self.use_prompt_weights /\ Len(self.prompt_weights) # 0
                 W == Resolved(self, out'.raw)
             IN /\ out'.upw = on
                /\ out'.eff =
                      IF on
                      THEN [j \in 1..Len(W) |-> W[j] * self.prompt_weights[j]]
                      ELSE W]_vars

\* a re-weighted pass in mode use_last: the cached map is what is scaled
C25_Witness ==
    /\ out.ok /\ out.mode = "use_last" /\ out.upw
    /\ layers[Probe].prompt_weights # <<>>
    /\ Len(layers[Probe].attn_map) = Len(out.raw)
    /\ layers[Probe].attn_map # out.raw
    /\ out.eff = Mul(layers[Probe].attn_map, layers[Probe].prompt_weights)
    /\ out.eff # layers[Probe].attn_map
    /\ out.eff # Mul(out.raw, layers[Probe].prompt_weights)

PassThroughModes == {"injection", "unconditional", ""}

\* C26 (as stated): in the modes injection, unconditional and empty the
\* effective weights of a forward pass are the raw weights and the layer's
\* variables are left unchanged.
C26_PassThroughIsRaw ==
    [][(ForwardPass /\ out'.mode \in PassThroughModes)
          => /\ layers'[Probe] = layers[Probe]
             /\ out'.ok /\ out'.eff = out'.raw]_vars

\* C26 (amended): in the modes injection, unconditional and empty a forward
\* pass leaves the layer's variables unchanged and its effective weights are
\* the raw weights, multiplied by prompt_weights when the re-weighting is on;
\* the pass gives the same effective weights in each of the three modes.
C26_PassThroughAlike ==
    [][(ForwardPass /\ out'.ok /\ out'.mode \in PassThroughModes)
          => LET self == layers[Probe]
             IN /\ layers'[Probe] = self
                /\ out'.eff = IF out'.upw
                              THEN Mul(out'.raw, self.prompt_weights)
                              ELSE out'.raw
                /\ \A mode \in PassThroughModes :
                      LET other == [self EXCEPT !.cross_attn_mode = mode]
                          r == call_attention_edit(other, out'.raw)
                      IN r.ok /\ r.weights = out'.eff /\ r.self = other]_vars

\* a pass in mode injection with the re-weighting on, over a layer that holds
\* a cached map and a mask
C26_Witness ==
    /\ out.ok /\ out.mode = "injection" /\ out.upw /\ out.kept
    /\ layers[Probe].prompt_weights # <<>>
    /\ out.eff = Mul(out.raw, layers[Probe].prompt_weights)
    /\ out.eff # out.raw
    /\ layers[Probe].cross_attn_mode = "injection"
    /\ layers[Probe].attn_map # <<>>
    /\ layers[Probe].prompt_edit_mask # <<>>

\* C27: in every pass of the resample loop of inpaint the latent given to the
\* denoising network is the latent the DDIM update uses as latent_prev.
C27_NetworkSeesLatentPrev ==
    (calc.fn = "inpaint" /\ calc.passes > 0) => calc.given = calc.used

\* C28: the latent handed to the decoder equals known_x0 where the mask is 1.
C28_KnownWhereMasked ==
    (calc.fn = "inpaint" /\ calc.at \in {"decode", "done"}
        /\ calc.mask = Whole(1))
        => calc.latent = calc.known_x0

\* a run of several timesteps and resamples over a masked element, started
\* from noise that is not the known image, has reached the decoder
C28_Witness ==
    /\ calc.fn = "inpaint" /\ calc.at = "done" /\ calc.mask = Whole(1)
    /\ calc.num_steps = MaxSteps /\ calc.num_resamples = MaxResamples
    /\ calc.passes = MaxSteps * MaxResamples
    /\ calc.latent = calc.known_x0
    /\ calc.latent_prev # calc.known_x0

UsageErrors == {"noise_and_seed", "method", "reweight", "prompt_too_long"}

\* C29: a call of prompt_to_prompt that raises a usage error (noise and seed,
\* unknown method, reweight with an empty weight array, a prompt, prompt_edit
\* or negative_prompt of more than 77 tokens) leaves the variables of every
\* attention layer exactly as they were before the call.
C29_UsageErrorKeepsLayers ==
    [][(/\ pc = "idle" /\ pc' = "done"
        /\ call'.name = "prompt_to_prompt"
        /\ res'.kind = "ValueError" /\ res'.why \in UsageErrors)
          => /\ layers' = layers
             /\ names' = names
             /\ patched' = patched]_vars

\* a refine call with weights was rejected for a long prompt, on a pipeline
\* whose layers hold what an earlier failed run left
C29_Witness ==
    /\ Returned("prompt_to_prompt") /\ UsageError
    /\ res.why = "prompt_too_long"
    /\ call.method = "refine" /\ Size(call.attn_edit_weights) # 0
    /\ patched
    /\ \E i \in Attn2Layers :
          /\ layers[i].cross_attn_mode = "save"
          /\ layers[i].attn_map # <<>>
          /\ layers[i].prompt_weights # call.attn_edit_weights.arr

\* the latest prediction, run again on the layers as it found them
PredOut ==
    Predict([names |-> names, patched |-> patched, layers |-> pred.layers],
            pred.ctx, pred.index)

\* the latest prediction was the last of a pass and the latent was advanced
StepTaken ==
    /\ call.name \in {"generate_image", "prompt_to_prompt", "inpaint"}
    /\ pred.ctx \in {"cond", "edit"}
    /\ res.kind # "InvalidArgumentError"

InpaintPassed == calc.fn = "inpaint" /\ calc.passes > 0

\* C31: after every pass of the resample loop the latent is
\* sqrt(a_prev) * known_x0 + sqrt(1 - a_prev) * noise where the mask is 1 and
\* the result of the DDIM step where the mask is 0; the noise is zero at
\* timestep 1 and drawn at every timestep above 1.
C31_CompositeAfterPass ==
    InpaintPassed
        => /\ calc.mask = Whole(1)
                => calc.latent =
                      Plus(Times(calc.pass.a_prev.sqrt, calc.known_x0),
                           Times(calc.pass.a_prev.sqrt_one_minus, calc.pass.noise))
           /\ calc.mask = Whole(0) => calc.latent = calc.pass.x_prev
           /\ calc.pass.timestep = 1 <=> calc.pass.noise = Whole(0)
           /\ calc.pass.timestep >= 1

\* a pass at a timestep above 1 over a masked element: noise was drawn and the
\* latent is neither the known image nor the DDIM result
C31_Witness ==
    /\ InpaintPassed /\ calc.mask = Whole(1)
    /\ calc.pass.timestep > 1 /\ calc.pass.noise # Whole(0)
    /\ calc.latent # calc.known_x0
    /\ calc.latent # calc.pass.x_prev

\* C32: latent_prev is re-perturbed, around latent * sqrt(1 - beta_prev) with
\* variance beta_prev = 1 - a_t / a_prev, exactly after the passes that are
\* not the last of their timestep at a timestep above 1; never when
\* num_resamples is 1, after the last pass of a timestep, or at timestep 1.
C32_ReperturbedBetweenPasses ==
    InpaintPassed
        => /\ calc.pass.redrawn
                <=> /\ calc.pass.resample_index + 1 < calc.num_resamples
                    /\ calc.pass.timestep > 1
           /\ calc.pass.redrawn
                => /\ calc.latent_prev \in Resamples
                   /\ calc.pass.around.variance =
                         Minus(Whole(1),
                               Over(Times(calc.pass.a_t.sqrt, calc.pass.a_t.sqrt),
                                    Times(calc.pass.a_prev.sqrt,
                                          calc.pass.a_prev.sqrt)))
                   /\ Times(calc.pass.around.mean, calc.pass.a_prev.sqrt) =
                         Times(calc.latent, calc.pass.a_t.sqrt)
           /\ ~calc.pass.redrawn => calc.latent_prev = calc.used
           /\ (calc.num_resamples = 1 \/ calc.pass.timestep = 1
                  \/ calc.pass.resample_index + 1 = calc.num_resamples)
                => ~calc.pass.redrawn

\* a first pass of two at a timestep above 1: latent_prev was drawn anew
C32_Witness ==
    /\ InpaintPassed /\ calc.pass.redrawn
    /\ calc.pass.resample_index = 0 /\ calc.num_resamples > 1
    /\ calc.pass.timestep > 1
    /\ calc.latent_prev # calc.used
    /\ calc.pass.around.variance # Whole(0)

\* a call has passed its checks and has its schedule
Sampling ==
    /\ call.name \in {"generate_image", "prompt_to_prompt", "inpaint"}
    /\ latent # NoLatent

\* the updates of the latent that were the first of their timestep
FirstPasses == SelectSeq(latent.steps, LAMBDA step : step.resample = 0)

\* C33: the timesteps of the schedule are taken in strictly descending order,
\* each once, from the largest down to timestep 1.
C33_TimestepsDescending ==
    Sampling
        => LET timesteps == Timesteps(call.num_steps)
               n == Len(timesteps)
           IN /\ index \in 0..n
              /\ Len(FirstPasses) \in {n - index, n - index + 1}
              /\ call.name # "inpaint" => Len(latent.steps) = n - index
              /\ \A k \in 1..Len(FirstPasses) :
                    FirstPasses[k].index = n - k + 1
              /\ \A k \in 1..(Len(FirstPasses) - 1) :
                    timesteps[FirstPasses[k].index]
                        > timesteps[FirstPasses[k + 1].index]
              /\ \A k \in 1..Len(latent.steps) :
                    latent.steps[k].resample # 0
                        => latent.steps[k].index = latent.steps[k - 1].index
              /\ res.kind = "ok"
                    => /\ index = 0 /\ Len(FirstPasses) = n
                       /\ timesteps[FirstPasses[n].index] = 1

\* a run over several timesteps has ended
C33_Witness ==
    /\ Sampling /\ res.kind = "ok" /\ call.num_steps = MaxSteps
    /\ Len(FirstPasses) = MaxSteps
    /\ FirstPasses[1].index = MaxSteps
    /\ FirstPasses[MaxSteps].index = 1
    /\ index = 0

\* C34: the step of a timestep uses as a_t the cumulative alpha of that
\* timestep and as a_prev the one of the next lower timestep of the schedule,
\* so a_prev of a step is a_t of the step taken next; a_prev is 1.0 exactly
\* for the step of timestep 1, the last one.
C34_AlphaPairs ==
    Sampling
        => LET timesteps == Timesteps(call.num_steps)
               Used(k) == StepAlphas(call.num_steps, FirstPasses[k].index)
           IN /\ \A k \in 1..Len(FirstPasses) :
                    LET i == FirstPasses[k].index
                    IN /\ Used(k).a_t = ALPHAS_CUMPROD(timesteps[i])
                       /\ i > 1 => Used(k).a_prev = ALPHAS_CUMPROD(timesteps[i - 1])
                       /\ Used(k).a_prev = One <=> timesteps[i] = 1
                       /\ Used(k).a_prev = One <=> k = Len(timesteps)
              /\ \A k \in 1..(Len(FirstPasses) - 1) :
                    Used(k).a_prev = Used(k + 1).a_t

\* a run of several steps has ended: the last step used 1.0, the one before
\* it the alpha of timestep 1
C34_Witness ==
    /\ Sampling /\ res.kind = "ok" /\ call.num_steps = MaxSteps
    /\ Len(FirstPasses) = MaxSteps /\ MaxSteps > 1
    /\ StepAlphas(call.num_steps, FirstPasses[MaxSteps].index).a_prev = One
    /\ StepAlphas(call.num_steps, FirstPasses[MaxSteps - 1].index).a_prev
          = ALPHAS_CUMPROD(1)

\* the positions of the prompt_to_prompt sampling loop
P2PLoop == {"p2p_uncond", "p2p_save", "p2p_modes", "p2p_edit"}

\* C35: in a prompt_to_prompt timestep every prediction receives the current
\* latent and timestep, which are those the timestep's earlier predictions
\* received; the latent changes only with the update that follows the
\* edited-prompt prediction, once, by one step built from this timestep's
\* unconditional and edited predictions; the first prediction of the next
\* timestep receives the latent that update left.
C35_OneLatentPerTimestep ==
    [][(call.name = "prompt_to_prompt" /\ pc \in P2PLoop)
          => /\ pred' # pred
                   => pred'.latent = latent /\ pred'.index = index
             /\ pc # "p2p_uncond"
                   => pred.latent = latent /\ pred.index = index
             /\ (pc = "p2p_uncond" /\ pred.ctx = "edit")
                   => /\ pred.index = index + 1
                      /\ latent.init = pred.latent.init
                      /\ Len(latent.steps) = Len(pred.latent.steps) + 1
                      /\ SubSeq(latent.steps, 1, Len(pred.latent.steps))
                            = pred.latent.steps
             /\ IF pc = "p2p_edit" /\ res' = res
                THEN /\ latent'.init = latent.init
                     /\ Len(latent'.steps) = Len(latent.steps) + 1
                     /\ SubSeq(latent'.steps, 1, Len(latent.steps))
                           = latent.steps
                     /\ latent'.steps[Len(latent'.steps)].index = index
                     /\ latent'.steps[Len(latent'.steps)].uncond
                           = unconditional_latent
                ELSE latent' = latent]_vars

\* the edited-prompt prediction of a second timestep is about to run on the
\* latent the first timestep left
C35_Witness ==
    /\ call.name = "prompt_to_prompt" /\ pc = "p2p_edit"
    /\ iteration = 1 /\ Len(latent.steps) = 1
    /\ pred.ctx = "orig" /\ pred.latent = latent
    /\ latent.steps[1].index = index + 1

\* C36: a self-attention (attn1) layer never uses prompt weights, never holds
\* a token mask, token indices or prompt weights, and is never in mode edit,
\* in the pipeline's state and at every prediction; before the layers are
\* given their variables no attention layer holds any of them.
C36_SelfAttentionHoldsNoPlan ==
    /\ ~patched => \A i \in AttnLayers : layers[i] = NoVariables
    /\ patched
          => \A i \in Attn1Layers :
                /\ ~layers[i].use_prompt_weights
                /\ layers[i].prompt_edit_mask = <<>>
                /\ layers[i].prompt_edit_indices = <<>>
                /\ layers[i].prompt_weights = <<>>
                /\ layers[i].cross_attn_mode # "edit"
                /\ (pred.ctx # "none" /\ pred.layers[i] # NoVariables)
                      => /\ ~pred.layers[i].use_prompt_weights
                         /\ pred.layers[i].prompt_edit_mask = <<>>
                         /\ pred.layers[i].prompt_weights = <<>>
                         /\ pred.layers[i].cross_attn_mode # "edit"

\* a refine edit with weights, about to predict on the edited prompt inside
\* the window: the cross-attention layers are in mode edit and hold the mask,
\* the indices and the weights in use, the self-attention layers hold none
C36_Witness ==
    /\ call.name = "prompt_to_prompt" /\ pc = "p2p_edit" /\ patched
    /\ Attn1Layers # {} /\ Attn2Layers # {}
    /\ \A i \in Attn2Layers :
          /\ layers[i].cross_attn_mode = "edit"
          /\ layers[i].use_prompt_weights
          /\ layers[i].prompt_edit_mask # <<>>
          /\ layers[i].prompt_edit_indices # <<>>
          /\ layers[i].prompt_weights # <<>>
    /\ \A i \in Attn1Layers :
          /\ layers[i].cross_attn_mode = "use_last"
          /\ layers[i].prompt_edit_mask = <<>>

\* the edit plan a layer holds; a layer without control variables holds none
NoPlan == [mask |-> <<>>, indices |-> <<>>, weights |-> <<>>]

PlanOf(l) ==
    IF l = NoVariables THEN NoPlan
    ELSE [mask |-> l.prompt_edit_mask, indices |-> l.prompt_edit_indices,
          weights |-> l.prompt_weights]

\* the three plan attributes as they stand, present or not
PlanAttributes(l) ==
    IF l = NoVariables THEN [absent |-> TRUE] ELSE PlanOf(l)

\* C37 as stated: no step of the prompt_to_prompt sampling loop assigns
\* prompt_edit_mask, prompt_edit_indices or prompt_weights of any layer.
C37_PlanNeverAssignedInLoop ==
    [][(call.name = "prompt_to_prompt" /\ pc \in P2PLoop)
          => \A i \in DOMAIN layers :
                PlanAttributes(layers'[i]) = PlanAttributes(layers[i])]_vars

\* C37: during the prompt_to_prompt sampling loop the plan is the one the
\* call set up before the first timestep (for refine the aligner's mask and
\* indices, with weights the call's weights, on the cross-attention layers)
\* and no step of the loop changes the mask, the indices or the weights a
\* layer holds. The one assignment inside the loop is the creation of the
\* attributes, empty, by the first mode update of the first timestep, when
\* the call is a replace without weights on a pipeline whose prompt-to-prompt
\* model has not been built before.
C37_PlanReadOnlyInLoop ==
    [][(call.name = "prompt_to_prompt" /\ pc \in P2PLoop)
          => /\ \A i \in DOMAIN layers : PlanOf(layers'[i]) = PlanOf(layers[i])
             /\ call.method = "refine"
                   => /\ patched
                      /\ \A i \in Attn2Layers :
                            /\ layers[i].prompt_edit_mask = AlignMask
                            /\ layers[i].prompt_edit_indices = AlignIndices
             /\ Size(call.attn_edit_weights) # 0
                   => /\ patched
                      /\ \A i \in Attn2Layers :
                            layers[i].prompt_weights = call.attn_edit_weights.arr
             /\ (\E i \in DOMAIN layers :
                    PlanAttributes(layers'[i]) # PlanAttributes(layers[i]))
                   => /\ pc = "p2p_uncond" /\ iteration = 0
                      /\ ~patched /\ patched'
                      /\ call.method = "replace"
                      /\ Size(call.attn_edit_weights) = 0
                      /\ \A i \in DOMAIN layers :
                            layers[i] = NoVariables]_vars

\* the second timestep of a refine edit with weights: a map has been cached
\* and the weights were in use and cleared again, the cross-attention layers
\* still hold the mask, the indices and the weights of the preamble
C37_Witness ==
    /\ call.name = "prompt_to_prompt" /\ pc \in P2PLoop /\ iteration >= 1
    /\ call.method = "refine" /\ Size(call.attn_edit_weights) # 0
    /\ patched /\ Attn2Layers # {}
    /\ \A i \in Attn2Layers :
          /\ layers[i].prompt_edit_mask = AlignMask
          /\ layers[i].prompt_edit_indices = AlignIndices
          /\ layers[i].prompt_weights = call.attn_edit_weights.arr
          /\ layers[i].prompt_weights # <<>>
          /\ layers[i].attn_map # <<>>

Running == pc \notin {"idle", "done"}

\* the calls that report progress: inpaint has a progress bar and a count
\* only with verbose=True
Reports == call.name # "inpaint" \/ call.verbose

\* C38 as stated: a run that has entered its loop has, when it ends other
\* than by an interrupt from outside, decoded and reported a count equal to
\* the number of timesteps.
C38_CountCompleteAtEnd ==
    (Sampling /\ pc = "done" /\ res.kind # "aborted")
        => /\ nets.decoder = 1
           /\ iteration = Len(Timesteps(call.num_steps))

\* C38: every call that has started ends. While it runs, the count of a call
\* that reports progress is the number of timesteps completed: 0 when the
\* loop is entered, raised by exactly 1 by the step that completes a timestep
\* and by no other step (no prediction, no mode update, no resample pass but
\* the last of its timestep). A run that returns has processed every
\* timestep, has decoded once and, if it reports progress, ends with a count
\* equal to the number of timesteps; a run that raises inside the loop ends
\* with the count of the timesteps completed before, which is smaller; an
\* inpaint with verbose=False counts nothing.
C38_RunsEndWithCount ==
    /\ Running ~> (pc = "done")
    /\ [](Sampling
            => LET n == Len(Timesteps(call.num_steps))
               IN /\ iteration = IF Reports THEN n - index ELSE 0
                  /\ nets.decoder = IF res.kind = "ok" THEN 1 ELSE 0
                  /\ res.kind = "ok" => pc = "done" /\ index = 0
                  /\ (pc = "done" /\ res.kind # "ok") => index > 0)
    /\ [][/\ (~Running /\ Running') => iteration' = 0
          /\ Running
                => /\ iteration' \in {iteration, iteration + 1}
                   /\ iteration' = iteration + 1
                         <=> /\ Reports /\ index' = index - 1
                             /\ pc \in {"gen_cond", "p2p_edit", "inp_cond"}
                             /\ resample = call.num_resamples - 1
                             /\ Len(latent'.steps) = Len(latent.steps) + 1
                   /\ resample' > resample => iteration' = iteration]_vars

\* an inpaint with two resample passes per timestep and a progress bar has
\* returned: the count is the number of timesteps, half the number of passes
C38_Witness ==
    /\ call.name = "inpaint" /\ call.verbose /\ pc = "done" /\ res.kind = "ok"
    /\ call.num_steps = MaxSteps /\ call.num_resamples = 2
    /\ iteration = Len(Timesteps(call.num_steps))
    /\ Len(latent.steps) = 2 * iteration
    /\ nets.decoder = 1

====
